---- MODULE Spec2Model ----
(***************************************************************************)
(* A model of swellbear/rithm's Python ML glue:                            *)
(*   server/ml/data-cleaner.py         ProfessionalDataCleaner, main       *)
(*   server/ml/authentic-trainer.py    AuthenticMLTrainer, main            *)
(*   server/production/authentic-trainer.py  AuthenticMLTrainer            *)
(*                                                                         *)
(* A data frame is modelled by what the code reads of it: per column its   *)
(* dtype, its number of missing values and of distinct values, plus ghost  *)
(* fields that record what a step wrote into it.  The capping of outliers  *)
(* is modelled on the values themselves.  Library calls that can raise for *)
(* reasons outside the code (a fit, a score, an imputer) take a fault      *)
(* input that says whether they raise.                                     *)
(***************************************************************************)
EXTENDS Integers, Sequences, FiniteSets, TLC

VARIABLES
    pc,               \* the operation that ran last ("start" before any)
    call_in,          \* the arguments of the last call
    call_out,         \* what that call gave
    cleaning_report,  \* ProfessionalDataCleaner.cleaning_report (instance state)
    trainer,          \* the AuthenticMLTrainer instance (its attributes)
    calls             \* the number of calls the instances have served

vars == <<pc, call_in, call_out, cleaning_report, trainer, calls>>

\* ------------------------------------------------------------------ bounds

\* Rows of a frame in the missing-value model.
MaxRows == 11
\* Columns of a frame in the missing-value model.
NumCols == 2
\* Distinct values of a text column in the encoding model.
MaxUnique == 52
\* Rows of a frame in the outlier model.
OutlierRows == 12

\* ------------------------------------------------------- small utilities

Nothing == [none |-> TRUE]

Range(s) == {s[i] : i \in 1..Len(s)}

RECURSIVE SumSeq(_)
SumSeq(s) == IF s = <<>> THEN 0 ELSE Head(s) + SumSeq(Tail(s))

MaxOf(S) == IF S = {} THEN 0 ELSE CHOOSE m \in S : \A x \in S : x <= m

MinOf(S) == IF S = {} THEN 0 ELSE CHOOSE m \in S : \A x \in S : m <= x

\* ------------------------------------------------------------ data frames

\* The column names of the frames the model builds.
ColumnName == <<"a", "b", "c">>

\* One column of a frame.
\*   dtype  "number" (int64/float64), "object" (text) or "indicator"
\*   nulls  missing values, nuniq  distinct non-missing values
\*   numlike   a text column whose values are numbers stored as text
\*   outliers  values the outlier test of handle_outliers finds outside
\*   fill      ghost: how the missing values were imputed, filled: how many
\*   enc       ghost: how the column was encoded, cat: the category an
\*             indicator column stands for (0: not an indicator)
Col(name, dtype, nulls, nuniq) ==
    [name |-> name, dtype |-> dtype, nulls |-> nulls, nuniq |-> nuniq,
     numlike |-> FALSE, outliers |-> 0,
     fill |-> "none", filled |-> 0, enc |-> "none", cat |-> 0]

Frame(rows, cols) == [rows |-> rows, cols |-> cols]

ColumnNames(df) == [i \in 1..Len(df.cols) |-> df.cols[i].name]

\* Indicator columns carry the name of the column they were made from (the
\* prefix of their pandas name) and are told apart by cat; a column proper
\* has cat = 0.
IsNamed(c, name) == c.name = name /\ c.cat = 0

HasColumn(df, name) == \E i \in 1..Len(df.cols) : IsNamed(df.cols[i], name)

Column(df, name) ==
    df.cols[CHOOSE i \in 1..Len(df.cols) : IsNamed(df.cols[i], name)]

IsNumber(c) == c.dtype = "number"
IsObject(c) == c.dtype = "object"

\* df.select_dtypes(include=[np.number]).shape[1]
NumericCount(df) == Len(SelectSeq(df.cols, IsNumber))

\* df.isnull().sum().sum()
TotalNulls(df) == SumSeq([i \in 1..Len(df.cols) |-> df.cols[i].nulls])

\* df with column name replaced by c.
SetColumn(df, name, c) ==
    [df EXCEPT !.cols = [i \in 1..Len(df.cols) |->
        IF IsNamed(df.cols[i], name) THEN c ELSE df.cols[i]]]

\* df.drop(columns=[name])
DropColumn(df, name) ==
    LET keep(c) == ~IsNamed(c, name)
    IN  [df EXCEPT !.cols = SelectSeq(df.cols, keep)]

\* An entry of cleaning_report['operations_performed'].
Operation(op, col, n) == [op |-> op, col |-> col, n |-> n]

\* ProfessionalDataCleaner.__init__
NewReport ==
    [operations_performed |-> <<>>,
     data_quality_issues  |-> <<>>,
     columns_modified     |-> <<>>,
     rows_affected        |-> 0,
     rows_affected_type   |-> "int",
     original_shape       |-> Nothing,
     final_shape          |-> Nothing]

AddOperation(report, o) ==
    [report EXCEPT !.operations_performed = Append(@, o)]

\* ------------------------------------------------- handle_missing_values

DropMissingPct == 90
KnnMissingPct  == 50

\* (count / len(df)) * 100 > p and < p; the float product is exact at the
\* two thresholds used, so the integer comparison decides the same.
PctAbove(count, len, p) == count * 100 > p * len
PctBelow(count, len, p) == count * 100 < p * len

\* KNNImputer.fit_transform over the numeric columns followed by the
\* assignment df[numeric_cols] = ...: it raises when a numeric column has no
\* value at all (the imputer returns one column fewer than the key list), or
\* when the data makes the imputer itself raise (knn_error).
KnnRaises(df, knn_error) ==
    \/ knn_error
    \/ \E i \in 1..Len(df.cols) :
          IsNumber(df.cols[i]) /\ df.cols[i].nulls = df.rows

\* Every numeric column comes back complete.
KnnImpute(df) ==
    [df EXCEPT !.cols = [i \in 1..Len(df.cols) |->
        IF IsNumber(df.cols[i]) /\ df.cols[i].nulls > 0
        THEN [df.cols[i] EXCEPT !.nulls = 0, !.fill = "knn", !.filled = df.cols[i].nulls]
        ELSE df.cols[i]]]

\* df[col] = df[col].fillna(value): a column with no value at all has no
\* mean or median, and stays as it is.
FillColumn(df, name, how) ==
    LET c == Column(df, name)
    IN  IF how \in {"mean", "median"} /\ c.nulls = df.rows
        THEN df
        ELSE SetColumn(df, name, [c EXCEPT !.nulls = 0, !.fill = how, !.filled = c.nulls])

\* The state of a cleaning step while it runs: the frame, the report and
\* whether the step has raised.
StepState(df, report) == [df |-> df, report |-> report, raised |-> FALSE]

\* The step goes on with frame df, having reported operation o.
Did(st, df, o) == [st EXCEPT !.df = df, !.report = AddOperation(st.report, o)]

\* df[col] is one column only if the name is unique; with two columns of
\* that name pandas returns a frame, and the tests the steps apply to it
\* (if null_count == 0, .dtype, if nunique() <= 10) raise.
Ambiguous(df, col) ==
    Cardinality({i \in 1..Len(df.cols) : IsNamed(df.cols[i], col)}) > 1

\* The body of the loop for one column.
MissingValuesOfColumn(st, col, strategy, knn_error) ==
    LET df         == st.df
        c          == Column(df, col)
        null_count == c.nulls
    IN
    IF st.raised THEN st
    ELSE IF Ambiguous(df, col) THEN [st EXCEPT !.raised = TRUE]
    ELSE IF null_count = 0 THEN st
    ELSE IF PctAbove(null_count, df.rows, DropMissingPct) THEN
        Did(st, DropColumn(df, col), Operation("Dropped column", col, 0))
    ELSE IF IsNumber(c) THEN
        IF strategy = "smart" THEN
            IF PctBelow(null_count, df.rows, KnnMissingPct) /\ NumericCount(df) > 1
            THEN IF KnnRaises(df, knn_error)
                 THEN Did(st, FillColumn(df, col, "median"),
                          Operation("Median imputation", col, 0))
                 ELSE Did(st, KnnImpute(df), Operation("KNN imputation", "", 0))
            ELSE Did(st, FillColumn(df, col, "median"),
                     Operation("Median imputation", col, 0))
        ELSE IF strategy \in {"mean", "median", "zero"}
             THEN [st EXCEPT !.df = FillColumn(df, col, strategy)]
             ELSE st
    ELSE
        IF PctBelow(null_count, df.rows, KnnMissingPct) THEN
            IF null_count < df.rows
            THEN Did(st, FillColumn(df, col, "mode"),
                     Operation("Mode imputation", col, 0))
            ELSE Did(st, FillColumn(df, col, "unknown"),
                     Operation("'Unknown' imputation", col, 0))
        ELSE Did(st, FillColumn(df, col, "unknown"),
                 Operation("'Unknown' imputation", col, 0))

\* for col in df.columns: the names are those of the frame the loop started on.
RECURSIVE MissingValuesLoop(_, _, _, _)
MissingValuesLoop(names, st, strategy, knn_error) ==
    IF names = <<>> THEN st
    ELSE MissingValuesLoop(Tail(names),
             MissingValuesOfColumn(st, Head(names), strategy, knn_error),
             strategy, knn_error)

\* ProfessionalDataCleaner.handle_missing_values: the frame returned and the
\* report after the call.  original_nulls and final_nulls are numpy integers,
\* and so is rows_affected once they are added to it (sums over a frame
\* without columns are floats).
handle_missing_values(df, strategy, report, knn_error) ==
    LET original_nulls == TotalNulls(df)
        st == MissingValuesLoop(ColumnNames(df), StepState(df, report),
                                strategy, knn_error)
        final_nulls == TotalNulls(st.df)
    IN  IF st.raised THEN st
        ELSE [st EXCEPT
                !.report.rows_affected = @ + (original_nulls - final_nulls),
                !.report.rows_affected_type =
                    IF df.cols = <<>> /\ @ # "numpy.int64" THEN "float"
                    ELSE "numpy.int64"]

\* ------------------------------------------ encode_categorical_variables

OneHotMaxUnique == 10
LabelMaxUnique  == 50
TopCategories   == 20

\* The branch taken for a text column with unique_count distinct values.
EncodingMutLabelAtTen(unique_count) ==
    IF unique_count < OneHotMaxUnique THEN "onehot"
    ELSE IF unique_count <= LabelMaxUnique THEN "label"
    ELSE "topk"

EncodingFor(unique_count) ==
    IF unique_count <= OneHotMaxUnique THEN "onehot"
    ELSE IF unique_count <= LabelMaxUnique THEN "label"
    ELSE "topk"

\* pd.get_dummies(df[col], prefix=col, dummy_na=False): one indicator column
\* per category, a missing value giving none.
Dummies(col, categories) ==
    [k \in 1..categories |->
        [Col(col, "indicator", 0, 2) EXCEPT !.enc = "onehot", !.cat = k]]

\* pd.concat([df, dummies], axis=1) then df.drop(columns=[col])
ReplaceByDummies(df, col, categories) ==
    DropColumn([df EXCEPT !.cols = @ \o Dummies(col, categories)], col)

\* The body of the loop for one text column.  other_in_top: 'Other' is
\* itself one of the 20 most frequent categories of the column.
EncodeColumn(st, col, other_in_top) ==
    LET df           == st.df
        c            == Column(df, col)
        unique_count == c.nuniq
        branch       == EncodingFor(unique_count)
    IN
    IF st.raised THEN st
    ELSE IF Ambiguous(df, col) THEN [st EXCEPT !.raised = TRUE]
    ELSE IF branch = "onehot" THEN
        Did(st, ReplaceByDummies(df, col, unique_count),
            Operation("One-hot encoded", col, unique_count))
    ELSE IF branch = "label" THEN
        \* le.fit_transform(df[col].astype(str)): a missing value becomes the
        \* text 'nan', one more class.
        Did(st, SetColumn(df, col,
                   [c EXCEPT !.dtype = "number", !.enc = "label", !.nulls = 0,
                             !.nuniq = @ + (IF c.nulls > 0 THEN 1 ELSE 0)]),
            Operation("Label encoded", col, unique_count))
    ELSE
        \* value_counts().head(20), every other value (a missing one too)
        \* becomes 'Other'.
        Did(st, ReplaceByDummies(df, col,
                   IF other_in_top THEN TopCategories ELSE TopCategories + 1),
            Operation("Grouped and encoded", col, TopCategories))

RECURSIVE EncodeLoop(_, _, _)
EncodeLoop(names, st, other_in_top) ==
    IF names = <<>> THEN st
    ELSE EncodeLoop(Tail(names), EncodeColumn(st, Head(names), other_in_top),
                    other_in_top)

\* The text columns the loop visits: those of dtype object, without the
\* target column when one is given ("" stands for None, falsy like it).
CategoricalCols(df, target_column) ==
    LET isCat(c) == IsObject(c) /\ ~(target_column # "" /\ c.name = target_column)
        cs == SelectSeq(df.cols, isCat)
    IN  [i \in 1..Len(cs) |-> cs[i].name]

\* ProfessionalDataCleaner.encode_categorical_variables
encode_categorical_variables(df, target_column, report, other_in_top) ==
    EncodeLoop(CategoricalCols(df, target_column), StepState(df, report),
               other_in_top)

\* -------------------------------------------------------- handle_outliers

\* The values of a numeric column are held in eighths of a unit, so that
\* the quartiles (interpolated in quarters) and 1.5 * IQR are integers.
Unit == 2 * 4

\* A column with its values: vals[i] is the value of row i.  The columns of
\* this model are complete (the missing values were handled before).
ValCol(name, dtype, vals) == [name |-> name, dtype |-> dtype, vals |-> vals]

RECURSIVE Insert(_, _)
Insert(x, s) ==
    IF s = <<>> THEN <<x>>
    ELSE IF x <= Head(s) THEN <<x>> \o s
    ELSE <<Head(s)>> \o Insert(x, Tail(s))

RECURSIVE SortedVals(_)
SortedVals(s) == IF s = <<>> THEN <<>> ELSE Insert(Head(s), SortedVals(Tail(s)))

\* Series.quantile(k/4): linear interpolation between the two order
\* statistics around position (n - 1) * k / 4.
Quantile(vals, k) ==
    LET s   == SortedVals(vals)
        pos == (Len(s) - 1) * k
        j   == pos \div 4
        r   == pos % 4
    IN  IF r = 0 THEN s[j + 1]
        ELSE ((4 - r) * s[j + 1] + r * s[j + 2]) \div 4

\* Series.nunique()
NUnique(vals) == Cardinality(Range(vals))

\* threshold=1.5, as the fraction ThresholdNum / ThresholdDen
ThresholdNum == 3
ThresholdDen == 2
\* if df[col].nunique() <= 10: continue
SkipMaxUnique == 10

IqrBounds(vals) ==
    LET Q1  == Quantile(vals, 1)
        Q3  == Quantile(vals, 3)
        IQR == Q3 - Q1
    IN  [lower |-> Q1 - (ThresholdNum * IQR) \div ThresholdDen,
         upper |-> Q3 + (ThresholdNum * IQR) \div ThresholdDen]

\* Series.clip(lower=, upper=) on one value.
ClipMutUpperOnly(v, lower, upper) == IF v > upper THEN upper ELSE v

Clip(v, lower, upper) ==
    IF v < lower THEN lower ELSE IF v > upper THEN upper ELSE v

\* The body of the loop for one numeric column, method 'iqr'.
IqrCap(st, i) ==
    LET c  == st.df.cols[i]
        b  == IqrBounds(c.vals)
        outlier_count ==
            Cardinality({r \in 1..Len(c.vals) :
                            c.vals[r] < b.lower \/ c.vals[r] > b.upper})
    IN  IF outlier_count > 0
        THEN Did(st, [st.df EXCEPT !.cols[i].vals =
                        [r \in 1..Len(c.vals) |-> Clip(c.vals[r], b.lower, b.upper)]],
                 Operation("Capped outliers (IQR)", c.name, outlier_count))
        ELSE st

\* n * (v - mean) and n^2 times the population variance of vals, as whole
\* numbers: the deviations are compared by their squares.
Deviation(vals, v) == Len(vals) * v - SumSeq(vals)

SquaresTimesN(vals) ==
    Len(vals) * SumSeq([r \in 1..Len(vals) |-> vals[r] * vals[r]])
    - SumSeq(vals) * SumSeq(vals)

\* np.abs(stats.zscore(...)) > threshold: v is more than threshold
\* population standard deviations from the mean (no value of a constant
\* column is, its z-scores being NaN).
ZscoreAbove(vals, v) ==
    ThresholdDen * ThresholdDen * Deviation(vals, v) * Deviation(vals, v)
        > ThresholdNum * ThresholdNum * SquaresTimesN(vals)

\* u is within num/den sample standard deviations (Series.std) of the mean.
WithinStd(vals, u, num, den) ==
    den * den * (Len(vals) - 1) * Deviation(vals, u) * Deviation(vals, u)
        <= num * num * Len(vals) * SquaresTimesN(vals)

\* mean -/+ threshold * std.  The values stay on the grid of the model: a
\* bound is the outermost grid value inside it.
ZscoreBounds(vals) ==
    LET grid == MinOf(Range(vals))..MaxOf(Range(vals))
        in   == {u \in grid : WithinStd(vals, u, ThresholdNum, ThresholdDen)}
    IN  [lower |-> MinOf(in), upper |-> MaxOf(in)]

\* The body of the loop for one numeric column, method 'zscore'.
ZscoreCap(st, i) ==
    LET c  == st.df.cols[i]
        outlier_count ==
            Cardinality({r \in 1..Len(c.vals) : ZscoreAbove(c.vals, c.vals[r])})
    IN  IF outlier_count > 0
        THEN CHOOSE q \in
               {Did(st, [st.df EXCEPT !.cols[i].vals =
                           [r \in 1..Len(c.vals) |-> Clip(c.vals[r], b.lower, b.upper)]],
                    Operation("Capped outliers (Z-score)", c.name, outlier_count)) :
                  b \in {ZscoreBounds(c.vals)}} : TRUE
        ELSE st

RECURSIVE OutliersLoop(_, _, _)
OutliersLoop(i, st, method) ==
    IF i > Len(st.df.cols) THEN st
    ELSE LET c == st.df.cols[i]
         IN  IF c.dtype # "number" \/ NUnique(c.vals) <= SkipMaxUnique
             THEN OutliersLoop(i + 1, st, method)
             ELSE IF method = "iqr"
             THEN OutliersLoop(i + 1, IqrCap(st, i), method)
             ELSE IF method = "zscore"
             THEN OutliersLoop(i + 1, ZscoreCap(st, i), method)
             ELSE OutliersLoop(i + 1, st, method)

\* ProfessionalDataCleaner.handle_outliers on a frame with its values
\* (threshold is its default 1.5, as in the call of clean_data; a method
\* that is neither 'iqr' nor 'zscore' changes nothing).
handle_outliers(df, method, report) ==
    OutliersLoop(1, StepState(df, report), method)

\* ------------------------------------------------------------- clean_data

\* df.shape
Shape(df) == <<df.rows, Len(df.cols)>>

\* analyze_data_quality: the issues found, in the order they are appended.
\* dups is df.duplicated().sum().
MissingIssues(df) ==
    LET has(c) == c.nulls > 0
        cs == SelectSeq(df.cols, has)
    IN  [i \in 1..Len(cs) |-> Operation("missing values", cs[i].name, cs[i].nulls)]

ColumnIssues(c, rows) ==
    (IF IsObject(c) /\ rows - c.nulls > 0 /\ c.numlike
     THEN <<Operation("Numeric data stored as text", c.name, 0)>> ELSE <<>>)
    \o
    (IF IsNumber(c) /\ c.nuniq > 10 /\ c.outliers > 0
     THEN <<Operation("potential outliers detected", c.name, c.outliers)>> ELSE <<>>)

RECURSIVE TypeIssues(_, _)
TypeIssues(cols, rows) ==
    IF cols = <<>> THEN <<>>
    ELSE ColumnIssues(Head(cols), rows) \o TypeIssues(Tail(cols), rows)

analyze_data_quality(df, dups) ==
    MissingIssues(df) \o TypeIssues(df.cols, df.rows) \o
    (IF dups > 0 THEN <<Operation("duplicate rows found", "Dataset", dups)>>
     ELSE <<>>)

\* The chain of str.strip / lower / replace applied to one column name.
Standardized(name) ==
    CASE name = "Total Sales" -> "total_sales"
      [] name = "A"           -> "a"
      [] OTHER                -> name

clean_column_names(df, report) ==
    LET original_columns == ColumnNames(df)
        renamed == [df EXCEPT !.cols = [i \in 1..Len(df.cols) |->
                       [df.cols[i] EXCEPT !.name = Standardized(@)]]]
    IN  IF original_columns # ColumnNames(renamed)
        THEN [StepState(renamed, AddOperation(report,
                                    Operation("Standardized column names", "", 0)))
                EXCEPT !.report.columns_modified = @ \o ColumnNames(renamed)]
        ELSE StepState(renamed, report)

\* if (nan_pct - original_nan_pct) < 50
ConvertLossPct == 50

\* The values of text column c that do not survive pd.to_numeric after the
\* cleaning of the text: none of a column of numbers stored as text except
\* the 'Unknown' written by the imputation, all of any other text column.
ConversionLoss(c, rows) ==
    IF c.numlike THEN (IF c.fill = "unknown" THEN c.filled ELSE 0)
    ELSE rows - c.nulls

ConvertColumn(st, i) ==
    LET c    == st.df.cols[i]
        loss == ConversionLoss(c, st.df.rows)
    IN  IF st.raised THEN st
        ELSE IF ~IsObject(c) THEN st
        ELSE IF Ambiguous(st.df, c.name) THEN [st EXCEPT !.raised = TRUE]
        ELSE IF st.df.rows > 0 /\ PctBelow(loss, st.df.rows, ConvertLossPct)
        THEN [Did(st, [st.df EXCEPT !.cols[i] =
                         [c EXCEPT !.dtype = "number", !.nulls = c.nulls + loss,
                                   !.nuniq = IF c.numlike THEN c.nuniq ELSE 0]],
                  Operation("Converted to numeric", c.name, 0))
                EXCEPT !.report.columns_modified = Append(@, c.name)]
        ELSE st

RECURSIVE ConvertLoop(_, _)
ConvertLoop(i, st) ==
    IF i > Len(st.df.cols) THEN st ELSE ConvertLoop(i + 1, ConvertColumn(st, i))

\* convert_data_types: with force_numeric false no column is touched, but
\* the dtype of every column is still read.
convert_data_types(df, force_numeric, report) ==
    IF force_numeric THEN ConvertLoop(1, StepState(df, report))
    ELSE [StepState(df, report) EXCEPT !.raised =
             \E i \in 1..Len(df.cols) : Ambiguous(df, df.cols[i].name)]

\* remove_duplicates: dups rows go, the first of each group stays.
remove_duplicates(df, dups, report) ==
    LET initial_rows == df.rows
        kept == [df EXCEPT !.rows = initial_rows - dups,
                           !.cols = [i \in 1..Len(df.cols) |->
                               [df.cols[i] EXCEPT !.nulls =
                                   IF @ > initial_rows - dups
                                   THEN initial_rows - dups ELSE @]]]
        duplicates_removed == initial_rows - kept.rows
    IN  IF duplicates_removed > 0
        THEN [Did(StepState(kept, report), kept,
                  Operation("Removed duplicate rows", "", duplicates_removed))
                EXCEPT !.report.rows_affected = @ + duplicates_removed]
        ELSE StepState(kept, report)

\* handle_outliers as clean_data sees it: the frame keeps its shape, and a
\* numeric column of more than 10 distinct values with outliers under the
\* method in use is reported as capped.
OutliersOfColumn(st, i, method) ==
    LET c == st.df.cols[i]
    IN  IF st.raised \/ ~IsNumber(c) THEN st
        ELSE IF Ambiguous(st.df, c.name) THEN [st EXCEPT !.raised = TRUE]
        ELSE IF c.nuniq <= SkipMaxUnique THEN st
        ELSE IF method \in {"iqr", "zscore"} /\ c.outliers > 0
        THEN Did(st, [st.df EXCEPT !.cols[i].outliers = 0],
                 Operation("Capped outliers", c.name, c.outliers))
        ELSE st

RECURSIVE OutliersStepLoop(_, _, _)
OutliersStepLoop(i, st, method) ==
    IF i > Len(st.df.cols) THEN st
    ELSE OutliersStepLoop(i + 1, OutliersOfColumn(st, i, method), method)

OutliersStep(df, method, report) ==
    OutliersStepLoop(1, StepState(df, report), method)

\* options: None, a dict, or a JSON value that is no dict.
OptionsNone     == [kind |-> "none", d |-> <<>>]
OptionsDict(d)  == [kind |-> "dict", d |-> d]
OptionsOther    == [kind |-> "other", d |-> <<>>]

\* The dict clean_data puts in place of None.
DefaultOptions ==
    OptionsDict([clean_column_names |-> TRUE, handle_missing |-> TRUE,
                 missing_strategy |-> "smart", convert_types |-> TRUE,
                 force_numeric |-> TRUE, handle_outliers |-> TRUE,
                 outlier_method |-> "iqr", remove_duplicates |-> TRUE,
                 encode_categorical |-> FALSE, target_column |-> ""])

\* options.get(key) without the default of the call: an absent key is false.
GetMutAbsentFalse(options, key, default) ==
    IF key \in DOMAIN options.d THEN options.d[key] ELSE FALSE

\* options.get(key, default)
Get(options, key, default) ==
    IF key \in DOMAIN options.d THEN options.d[key] ELSE default

\* The pipeline's state between two steps: the state of the last step, the
\* steps run so far (ghost) and the message of the exception, if raised.
Pipeline(st, steps, error) ==
    [df |-> st.df, report |-> st.report, raised |-> st.raised,
     steps |-> steps, error |-> error]

\* One step of the pipeline: skipped when its option is false, raising when
\* the library raises in it (fault) or when the step itself raises.
RunStep(ps, name, enabled, fault, st) ==
    IF ps.raised \/ ~enabled THEN ps
    ELSE IF fault = name
    THEN [ps EXCEPT !.raised = TRUE, !.error = name, !.steps = Append(@, name)]
    ELSE Pipeline(st, Append(ps.steps, name), IF st.raised THEN name ELSE "")

\* The frame is built and its shape recorded (lines 288-296).
BuildFrame(report0, data, fault) ==
    IF data.kind \notin {"dict", "list"}
    THEN [df |-> data.df, report |-> report0, raised |-> TRUE,
          steps |-> <<>>, error |-> "Unsupported data format"]
    ELSE IF fault = "construct"
    THEN [df |-> data.df, report |-> report0, raised |-> TRUE,
          steps |-> <<>>, error |-> "construct"]
    ELSE [df |-> data.df,
          report |-> [report0 EXCEPT !.original_shape = Shape(data.df)],
          raised |-> FALSE, steps |-> <<>>, error |-> ""]

\* The i-th statement of the pipeline (lines 298-321), from the state p the
\* statements before it left.
StepAt(i, p, opts, data, fault) ==
    CASE i = 1 ->
           RunStep(p, "analyze", TRUE, fault,
              StepState(p.df, [p.report EXCEPT !.data_quality_issues =
                                  analyze_data_quality(p.df, data.dups)]))
      [] i = 2 ->
           \* the first options.get raises on a value that is no dict
           IF ~p.raised /\ opts.kind = "other"
           THEN [p EXCEPT !.raised = TRUE, !.error = "options"]
           ELSE p
      [] i = 3 ->
           RunStep(p, "names", Get(opts, "clean_column_names", TRUE), fault,
              clean_column_names(p.df, p.report))
      [] i = 4 ->
           RunStep(p, "missing", Get(opts, "handle_missing", TRUE), fault,
              handle_missing_values(p.df, Get(opts, "missing_strategy", "smart"),
                                    p.report, data.knn_error))
      [] i = 5 ->
           RunStep(p, "types", Get(opts, "convert_types", TRUE), fault,
              convert_data_types(p.df, Get(opts, "force_numeric", TRUE), p.report))
      [] i = 6 ->
           RunStep(p, "duplicates", Get(opts, "remove_duplicates", TRUE), fault,
              remove_duplicates(p.df, data.dups, p.report))
      [] i = 7 ->
           RunStep(p, "outliers", Get(opts, "handle_outliers", TRUE), fault,
              OutliersStep(p.df, Get(opts, "outlier_method", "iqr"), p.report))
      [] i = 8 ->
           RunStep(p, "encode", Get(opts, "encode_categorical", FALSE), fault,
              encode_categorical_variables(p.df, Get(opts, "target_column", ""),
                                           p.report, data.other_in_top))
      [] OTHER ->
           IF p.raised THEN p ELSE [p EXCEPT !.report.final_shape = Shape(p.df)]

LastStep == 9

\* Statements i..LastStep in order, each from the state the one before left.
RECURSIVE RunSteps(_, _, _, _, _)
RunSteps(i, p, opts, data, fault) ==
    IF i > LastStep THEN p
    ELSE CHOOSE r \in {RunSteps(i + 1, q, opts, data, fault) :
                          q \in {StepAt(i, p, opts, data, fault)}} : TRUE

\* The body of the try block of clean_data (lines 288-323).
CleanDataBody(report0, data, options, fault) ==
    CHOOSE r \in {RunSteps(1, p, opts, data, fault) :
                     p \in {BuildFrame(report0, data, fault)},
                     opts \in {IF options.kind = "none" THEN DefaultOptions
                                ELSE options}} : TRUE

\* The summary of a successful result (lines 327-334).
SummaryMutFinalAsOriginal(report) ==
    [original_rows    |-> report.final_shape[1],
     original_columns |-> report.final_shape[2],
     final_rows       |-> report.final_shape[1],
     final_columns    |-> report.final_shape[2],
     operations_count |-> Len(report.operations_performed),
     issues_found     |-> Len(report.data_quality_issues)]

Summary(report) ==
    [original_rows    |-> report.original_shape[1],
     original_columns |-> report.original_shape[2],
     final_rows       |-> report.final_shape[1],
     final_columns    |-> report.final_shape[2],
     operations_count |-> Len(report.operations_performed),
     issues_found     |-> Len(report.data_quality_issues)]

\* What a call gives its caller: a value returned or an exception raised.
Return(value) == [kind |-> "return", value |-> value]
Raise(error)  == [kind |-> "raise", value |-> [error |-> error]]

\* ProfessionalDataCleaner.clean_data on an instance whose report is report0:
\* what the call gives (out), the report of the instance after it, and the
\* steps it ran (ghost).
CleanDataResult(p) ==
    [out |-> IF p.raised
             THEN Return([success |-> FALSE, error |-> p.error,
                          cleaning_report |-> p.report])
             ELSE Return([success |-> TRUE, cleaned_data |-> p.df,
                          cleaning_report |-> p.report,
                          summary |-> Summary(p.report)]),
     report |-> p.report,
     steps  |-> p.steps]

clean_data(report0, data, options, fault) ==
    CHOOSE r \in {CleanDataResult(p) :
                     p \in {CleanDataBody(report0, data, options, fault)}} : TRUE

\* ------------------------------------------------- AuthenticMLTrainer

\* The two trainers: server/ml ("ml") and server/production ("production").
\* libs are the optional libraries whose import succeeded (ml only).
OptionalLibraries == {"xgboost", "lightgbm", "catboost"}

\* An instance after __init__: the encoders it holds and the estimators of
\* its registries that have been fitted (ghost).
NewTrainer(kind, libs) ==
    [kind |-> kind, libs |-> libs, label_encoders |-> {},
     target_encoder |-> FALSE, fitted |-> {}]

\* self.regression_models: key -> estimator
regression_models(self) ==
    IF self.kind = "ml"
    THEN [linear_regression      |-> "LinearRegression",
          random_forest          |-> "RandomForestRegressor",
          decision_tree          |-> "DecisionTreeRegressor",
          gradient_boosting      |-> "GradientBoostingRegressor",
          support_vector_machine |-> "SVR",
          k_nearest_neighbors    |-> "KNeighborsRegressor",
          neural_network         |-> "MLPRegressor"]
         @@ [k \in self.libs |->
                CASE k = "xgboost"  -> "XGBRegressor"
                  [] k = "lightgbm" -> "LGBMRegressor"
                  [] OTHER          -> "CatBoostRegressor"]
    ELSE [linear_regression |-> "LinearRegression",
          random_forest     |-> "RandomForestRegressor",
          decision_tree     |-> "DecisionTreeRegressor",
          svr               |-> "SVR",
          knn               |-> "KNeighborsRegressor",
          neural_network    |-> "MLPRegressor"]

\* self.classification_models: key -> estimator
classification_models(self) ==
    IF self.kind = "ml"
    THEN [logistic_regression    |-> "LogisticRegression",
          random_forest          |-> "RandomForestClassifier",
          decision_tree          |-> "DecisionTreeClassifier",
          gradient_boosting      |-> "GradientBoostingClassifier",
          support_vector_machine |-> "SVC",
          k_nearest_neighbors    |-> "KNeighborsClassifier",
          naive_bayes            |-> "GaussianNB",
          neural_network         |-> "MLPClassifier"]
         @@ [k \in self.libs |->
                CASE k = "xgboost"  -> "XGBClassifier"
                  [] k = "lightgbm" -> "LGBMClassifier"
                  [] OTHER          -> "CatBoostClassifier"]
    ELSE [logistic_regression |-> "LogisticRegression",
          random_forest       |-> "RandomForestClassifier",
          decision_tree       |-> "DecisionTreeClassifier",
          svc                 |-> "SVC",
          knn                 |-> "KNeighborsClassifier",
          naive_bayes         |-> "GaussianNB",
          neural_network      |-> "MLPClassifier"]

\* self.clustering_models (ml only)
clustering_models(self) == [k_means |-> "KMeans"]

\* The registry train_model looks an algorithm up in, by task type.
Registry(self, task_type) ==
    CASE task_type = "regression"     -> regression_models(self)
      [] task_type = "classification" -> classification_models(self)
      [] OTHER                        -> clustering_models(self)

\* hasattr(model, 'feature_importances_') after fit
HasFeatureImportances(estimator) ==
    estimator \in {"RandomForestRegressor", "RandomForestClassifier",
                   "DecisionTreeRegressor", "DecisionTreeClassifier",
                   "GradientBoostingRegressor", "GradientBoostingClassifier",
                   "XGBRegressor", "XGBClassifier", "LGBMRegressor",
                   "LGBMClassifier", "CatBoostRegressor", "CatBoostClassifier"}

\* --- the data a trainer is given

\* A column as preprocess_data reads it: its dtype, the number of its values
\* that are not missing (nvalid), how many of these parse as a number
\* (nparse; all of them in a numeric column) and how many are distinct.
TCol(name, dtype, nvalid, nparse, nuniq) ==
    [name |-> name, dtype |-> dtype, nvalid |-> nvalid, nparse |-> nparse,
     nuniq |-> nuniq]

\* data: a list of records, a dict of columns, or another JSON value; len is
\* len(data), rows and cols the frame pd.DataFrame(data) builds, blank the
\* number of its rows without any value.
TrainData(kind, len, rows, blank, cols) ==
    [kind |-> kind, len |-> len, rows |-> rows, blank |-> blank, cols |-> cols]

TColNames(cols) == {cols[i].name : i \in 1..Len(cols)}

TColumn(cols, name) == cols[CHOOSE i \in 1..Len(cols) : cols[i].name = name]

\* A line printed by preprocess_data.
Printed(stream, text) == [stream |-> stream, text |-> text]

\* --- preprocess_data

\* What preprocess_data gives: an exception with its message, or X, y and
\* task_type, read as the number of samples left (n), the number of feature
\* columns, the task type and the number of classes.  With it go the lines
\* it printed and what it stored in the instance.
PreRaise(msg, printed, encoders) ==
    [raised |-> TRUE, error |-> msg, printed |-> printed, n |-> 0,
     features |-> 0, task_type |-> "", classes |-> 0, encoders |-> encoders,
     target_encoder |-> FALSE, target |-> ""]

\* target is the name of the column taken as y (ghost).
PreReturn(n, features, task_type, classes, printed, encoders, target) ==
    [raised |-> FALSE, error |-> "", printed |-> printed, n |-> n,
     features |-> features, task_type |-> task_type, classes |-> classes,
     encoders |-> encoders, target_encoder |-> task_type = "classification",
     target |-> target]

HasValue(c) == c.nvalid > 0

IsNumeric(c) == c.dtype = "number"

\* A target with at most this many distinct values can be a class label.
MaxClasses == 20

\* Line 204 (production: line 85): the task type of target y.
TaskTypeMutBelowTwenty(y) ==
    IF y.nuniq < MaxClasses /\ y.dtype = "object"
    THEN "classification" ELSE "regression"

TaskType(y) ==
    IF y.nuniq <= MaxClasses /\ y.dtype = "object"
    THEN "classification" ELSE "regression"

\* Lines 170-175 (ml): a text target with a value that parses as a number
\* becomes a numeric target, its other values missing.
ToNumericIfPossible(y) ==
    IF y.dtype = "object" /\ y.nparse > 0
    THEN [y EXCEPT !.dtype = "number", !.nvalid = y.nparse,
                   !.nuniq = IF y.nuniq < y.nparse THEN y.nuniq ELSE y.nparse]
    ELSE y

\* Lines 189-221 (production: 70-102): the features X (columns xs, len rows)
\* are encoded and imputed, the task type is decided from target y, the
\* target is encoded or made numeric and the features are scaled.  The
\* imputer raises on a frame without columns, the scaler on one without
\* rows; fault "preprocess" is a library call raising for another reason.
EncodeAndScale(xs, y, len, printed, fault) ==
    LET encoders == {xs[i].name : i \in {j \in 1..Len(xs) : xs[j].dtype = "object"}}
        task     == TaskType(y)
        n        == IF task = "classification" THEN len
                    ELSE IF y.dtype = "number" THEN y.nvalid ELSE y.nparse
    IN  IF Len(xs) = 0
        THEN PreRaise("Data preprocessing failed: 0 feature(s)", printed, encoders)
        ELSE IF fault = "preprocess"
        THEN PreRaise("Data preprocessing failed: library", printed, encoders)
        ELSE IF n = 0
        THEN PreRaise("Data preprocessing failed: 0 sample(s)", printed, encoders)
        ELSE PreReturn(n, Len(xs), task, IF task = "classification" THEN y.nuniq ELSE 0,
                       printed, encoders, y.name)

\* Lines 154-164 (ml): the target column used, and the notice printed when it
\* is not the one asked for.
TargetUsed(cols, target_column) ==
    IF target_column \in TColNames(cols)
    THEN [name |-> target_column, printed |-> <<>>]
    ELSE IF SelectSeq(cols, IsNumeric) # <<>>
    THEN [name |-> Head(SelectSeq(cols, IsNumeric)).name,
          printed |-> <<Printed("stdout",
                          "Target column not found, using first numeric column")>>]
    ELSE [name |-> cols[Len(cols)].name,
          printed |-> <<Printed("stdout",
                          "No numeric columns found, using last column")>>]

\* Lines 182-185 (ml): the two debug lines.
DebugLines ==
    <<Printed("stderr", "Data after preprocessing"), Printed("stderr", "Target values")>>

MinSamplesMl == 2
MinSamplesProduction == 5

NotTarget(cols, name) == SelectSeq(cols, LAMBDA c : c.name # name)

\* Lines 166-221 (ml), once the target column t is chosen.
PreprocessMlWith(cols, t, fault) ==
    LET y       == ToNumericIfPossible(TColumn(cols, t.name))
        printed == t.printed \o DebugLines
    IN  IF y.nvalid < MinSamplesMl
        THEN PreRaise("Data preprocessing failed: Insufficient data", printed, {})
        ELSE EncodeAndScale(NotTarget(cols, t.name), y, y.nvalid, printed, fault)

\* preprocess_data of the ml trainer (lines 114-224).
PreprocessMl(data, target_column, fault) ==
    IF data.kind \notin {"dict", "list"}
    THEN PreRaise("Data preprocessing failed: Unsupported data format", <<>>, {})
    ELSE IF data.rows - data.blank = 0 \/ SelectSeq(data.cols, HasValue) = <<>>
    THEN PreRaise("Data preprocessing failed: No valid data found after cleaning",
                  <<>>, {})
    ELSE CHOOSE r \in {PreprocessMlWith(cols, t, fault) :
                          cols \in {SelectSeq(data.cols, HasValue)},
                          t \in {TargetUsed(SelectSeq(data.cols, HasValue),
                                            target_column)}} : TRUE

\* preprocess_data of the production trainer (lines 52-105).
PreprocessProduction(data, target_column, fault) ==
    IF data.kind \notin {"dict", "list"}
    THEN PreRaise("Data preprocessing failed: DataFrame constructor not properly called",
                  <<>>, {})
    ELSE IF target_column \notin TColNames(data.cols)
    THEN PreRaise("Data preprocessing failed: Target column not found in data", <<>>, {})
    ELSE IF TColumn(data.cols, target_column).nvalid < MinSamplesProduction
    THEN PreRaise("Data preprocessing failed: Insufficient data", <<>>, {})
    ELSE EncodeAndScale(NotTarget(data.cols, target_column),
                        TColumn(data.cols, target_column),
                        TColumn(data.cols, target_column).nvalid, <<>>, fault)

preprocess_data(self, data, target_column, fault) ==
    IF self.kind = "ml" THEN PreprocessMl(data, target_column, fault)
    ELSE PreprocessProduction(data, target_column, fault)

\* --- train_model

CeilDiv(a, b) == (a + b - 1) \div b

Min(a, b) == IF a < b THEN a ELSE b

\* test_size of the ml trainer (line 238) is 0.2 above 10 samples, 0.1 above
\* 5, 1/len above 2; train_test_split takes ceil(test_size * len) test
\* samples.  At most 2 samples are used whole for both (lines 244-246).
LargeSample == 10
SmallSample == 5
TinySample == 2

\* A split that takes test_size 0.2 whenever it splits.
SplitMutAlwaysFifth(n) ==
    IF n > TinySample
    THEN [train |-> n - CeilDiv(n, 5), test |-> CeilDiv(n, 5), called |-> TRUE]
    ELSE [train |-> n, test |-> n, called |-> FALSE]

SplitMl(n) ==
    IF n > LargeSample THEN [train |-> n - CeilDiv(n, 5), test |-> CeilDiv(n, 5), called |-> TRUE]
    ELSE IF n > SmallSample THEN [train |-> n - CeilDiv(n, 10), test |-> CeilDiv(n, 10), called |-> TRUE]
    ELSE IF n > TinySample THEN [train |-> n - 1, test |-> 1, called |-> TRUE]
    ELSE [train |-> n, test |-> n, called |-> FALSE]

\* The production trainer always splits with test_size 0.2 (lines 113-115).
SplitProduction(n) ==
    [train |-> n - CeilDiv(n, 5), test |-> CeilDiv(n, 5), called |-> TRUE]

Split(self, n) == IF self.kind = "ml" THEN SplitMl(n) ELSE SplitProduction(n)

\* The folds of the cross-validation (ml: lines 270 and 292; production: 5).
MaxFolds == 5

CvFolds(self, n) ==
    IF self.kind = "ml" THEN (IF n > TinySample THEN Min(MaxFolds, n) ELSE 2)
    ELSE MaxFolds

\* The instance after a call: encoders stored by preprocess_data, and the
\* estimator fitted, if one was (ghost).
AfterCall(self, pre, fitted) ==
    [self EXCEPT !.label_encoders = @ \cup pre.encoders,
                    !.target_encoder = @ \/ pre.target_encoder,
                    !.fitted = @ \cup fitted]

\* What a call of train_model leaves: what it gives its caller (out), the
\* instance after it, the lines printed, the steps reached and the registry
\* key of the estimator fitted (ghost; "" when none was).
Outcome(out, self, printed, steps, fitted) ==
    [out |-> out, self |-> self, printed |-> printed, steps |-> steps,
     fitted |-> fitted]

\* The except clause of train_model (lines 319-325; production 186-192).
CaughtMutReraise(error, algorithm, target_column) == Raise(error)

Caught(error, algorithm, target_column) ==
    Return([success |-> FALSE, error |-> error, algorithm |-> algorithm,
            target_column |-> target_column])

\* The metrics of a result (lines 264-306; production 135-175).
Metrics(task_type, classes) ==
    IF task_type = "regression"
    THEN [mse |-> "float", r2_score |-> "float", cv_mean |-> "float",
          cv_std |-> "float"]
    ELSE [accuracy |-> "float", cv_mean |-> "float", cv_std |-> "float",
          classes |-> classes]

\* The results dict of a successful call.
Results(key, estimator, pre, data, target_column, split) ==
    [algorithm |-> key, task_type |-> pre.task_type,
     target_column |-> target_column, samples_total |-> data.len,
     samples_used |-> pre.n, features |-> pre.features,
     training_samples |-> split.train, test_samples |-> split.test,
     success |-> TRUE]
    @@ Metrics(pre.task_type, pre.classes)
    @@ (IF HasFeatureImportances(estimator)
        THEN [feature_importance |-> pre.features] ELSE [success |-> TRUE])

\* Lines 248-256 (production 117-125): the key the estimator is taken under.
LookupMutKeepName(registry, algorithm) == algorithm

Lookup(registry, algorithm) ==
    IF algorithm \notin DOMAIN registry THEN "random_forest" ELSE algorithm

\* The steps of a call in order, and those reached when the call got as far
\* as step last (the split is no step when train_test_split is not called).
TrainSteps == <<"preprocess", "split", "lookup", "fit", "predict", "score">>

StepsUntil(last, split) ==
    SelectSeq(SubSeq(TrainSteps, 1, CHOOSE i \in 1..Len(TrainSteps) : TrainSteps[i] = last),
              LAMBDA x : x # "split" \/ split.called)

\* Lines 237-317 (production 112-184), after preprocess_data gave pre: split,
\* lookup, fit, predict, score.  A step raises when the library raises in it
\* (fault), the split also when it leaves no training sample, the scoring
\* also when there are more folds than samples.
TrainWith(self, data, algorithm, target_column, fault, pre, split, key) ==
    IF pre.raised
    THEN Outcome(Caught(pre.error, algorithm, target_column),
                 AfterCall(self, pre, {}), pre.printed, StepsUntil("preprocess", split), "")
    ELSE IF split.called /\ (fault = "split" \/ split.train = 0)
    THEN Outcome(Caught("split", algorithm, target_column),
                 AfterCall(self, pre, {}), pre.printed,
                 StepsUntil("split", split), "")
    ELSE IF key \notin DOMAIN Registry(self, pre.task_type)
    THEN Outcome(Caught("KeyError", key, target_column),
                 AfterCall(self, pre, {}), pre.printed,
                 StepsUntil("lookup", split), "")
    ELSE IF fault = "fit"
    THEN Outcome(Caught("fit", key, target_column),
                 AfterCall(self, pre, {}), pre.printed,
                 StepsUntil("fit", split), "")
    ELSE IF fault = "predict"
    THEN Outcome(Caught("predict", key, target_column),
                 AfterCall(self, pre, {<<pre.task_type, key>>}), pre.printed,
                 StepsUntil("predict", split), key)
    ELSE IF fault = "score" \/ CvFolds(self, pre.n) > pre.n
    THEN Outcome(Caught("score", key, target_column),
                 AfterCall(self, pre, {<<pre.task_type, key>>}), pre.printed,
                 StepsUntil("score", split), key)
    ELSE Outcome(Return(Results(key, Registry(self, pre.task_type)[key], pre,
                                data, target_column, split)),
                 AfterCall(self, pre, {<<pre.task_type, key>>}), pre.printed,
                 StepsUntil("score", split), key)

\* train_model without the special cases of the ml trainer.
TrainSupervised(self, data, algorithm, target_column, fault) ==
    CHOOSE r \in
        {CHOOSE q \in
            {TrainWith(self, data, algorithm, target_column, fault, pre, split, key) :
                split \in {Split(self, pre.n)},
                key \in {IF pre.raised THEN algorithm
                         ELSE Lookup(Registry(self, pre.task_type), algorithm)}} : TRUE
         : pre \in {preprocess_data(self, data, target_column, fault)}} : TRUE

\* --- train_clustering_model (ml)

\* KMeans(n_clusters=3) needs that many samples.
NClusters == 3

ClusteringFailure(error, algorithm) ==
    Return([success |-> FALSE, error |-> error, algorithm |-> algorithm])

ClusteringOutcome(out, self, steps, fitted) ==
    Outcome(out,
            [self EXCEPT !.fitted = @ \cup (IF fitted = "" THEN {}
                                               ELSE {<<"clustering", fitted>>})],
            <<>>, steps, fitted)

\* Lines 327-372.  The imputer raises on a frame without a numeric column
\* with a value or without rows, KMeans below NClusters samples.
train_clustering_model(self, data, algorithm, fault) ==
    LET numeric == SelectSeq(data.cols, LAMBDA c : IsNumeric(c) /\ HasValue(c))
    IN  IF data.kind \notin {"dict", "list"}
        THEN ClusteringOutcome(ClusteringFailure("DataFrame constructor", algorithm),
                               self, <<"preprocess">>, "")
        ELSE IF numeric = <<>> \/ data.rows = 0 \/ fault = "preprocess"
        THEN ClusteringOutcome(ClusteringFailure("imputer", algorithm),
                               self, <<"preprocess">>, "")
        ELSE IF data.rows < NClusters \/ fault = "fit"
        THEN ClusteringOutcome(ClusteringFailure("fit", algorithm),
                               self, <<"preprocess", "lookup", "fit">>, "")
        ELSE IF fault = "score"
        THEN ClusteringOutcome(ClusteringFailure("score", algorithm),
                               self, <<"preprocess", "lookup", "fit", "score">>,
                               algorithm)
        ELSE ClusteringOutcome(
                 Return([algorithm |-> algorithm, task_type |-> "clustering",
                         samples_total |-> data.len, samples_used |-> data.rows,
                         features |-> Len(numeric), n_clusters |-> "int",
                         silhouette_score |-> "float", cluster_centers |-> "list",
                         labels |-> "list", success |-> TRUE]),
                 self, <<"preprocess", "lookup", "fit", "score">>, algorithm)

\* --- train_auto_ml (ml)

\* The algorithms tried (lines 380-383).
TestAlgorithms(task_type) ==
    IF task_type = "regression"
    THEN <<"linear_regression", "random_forest", "decision_tree", "gradient_boosting">>
    ELSE <<"logistic_regression", "random_forest", "decision_tree", "gradient_boosting">>

\* A cross-validation of one candidate: it raised, or it gave a mean score.
\* Scores are ranks: 0 is the score 0.0, a higher rank a higher score.
CvOutcome(raised, score) == [raised |-> raised, score |-> score]

\* -inf, the best score a regression starts from (line 385).
MinusInfinity == 0 - 1

\* The loop of lines 391-418 from candidate i on; best holds best_score,
\* best_algorithm and all_results.
RECURSIVE TryAlgorithms(_, _, _, _)
TryAlgorithms(i, algos, cvs, best) ==
    IF i > Len(algos) THEN best
    ELSE CHOOSE r \in
           {TryAlgorithms(i + 1, algos, cvs, b) :
              b \in {IF cvs[i].raised THEN best
                     ELSE [best_score |-> IF cvs[i].score > best.best_score
                                          THEN cvs[i].score ELSE best.best_score,
                           best_algorithm |-> IF cvs[i].score > best.best_score
                                              THEN algos[i] ELSE best.best_algorithm,
                           all_results |-> Append(best.all_results,
                                             [algorithm |-> algos[i],
                                              score |-> cvs[i].score,
                                              cv_std |-> "float"])]}} : TRUE

\* Lines 427-430: the final split, test_size 0.2 above 2 samples.
SplitAutoMl(n) ==
    IF n > TinySample
    THEN [train |-> n - CeilDiv(n, 5), test |-> CeilDiv(n, 5), called |-> TRUE]
    ELSE [train |-> n, test |-> n, called |-> FALSE]

AutoMlResults(best, pre, data, target_column, split) ==
    [algorithm |-> "auto_ml", best_algorithm |-> best.best_algorithm,
     task_type |-> pre.task_type, target_column |-> target_column,
     samples_total |-> data.len, samples_used |-> pre.n,
     features |-> pre.features, tested_algorithms |-> best.all_results,
     training_samples |-> split.train, test_samples |-> split.test,
     success |-> TRUE]
    @@ (IF pre.task_type = "regression"
        THEN [r2_score |-> "float", mse |-> "float"]
        ELSE [accuracy |-> "float"])

\* Lines 420-469, after the loop chose best.
AutoMlWith(self, data, target_column, fault, pre, best, split) ==
    IF split.called /\ fault = "split"
    THEN Outcome(Caught("split", "auto_ml", target_column),
                 AfterCall(self, pre, {}), pre.printed,
                 StepsUntil("split", split), "")
    ELSE IF fault = "fit"
    THEN Outcome(Caught("fit", "auto_ml", target_column),
                 AfterCall(self, pre, {}), pre.printed,
                 StepsUntil("fit", split), "")
    ELSE IF fault = "predict"
    THEN Outcome(Caught("predict", "auto_ml", target_column),
                 AfterCall(self, pre, {<<pre.task_type, best.best_algorithm>>}),
                 pre.printed, StepsUntil("predict", split), best.best_algorithm)
    ELSE IF fault = "score"
    THEN Outcome(Caught("score", "auto_ml", target_column),
                 AfterCall(self, pre, {<<pre.task_type, best.best_algorithm>>}),
                 pre.printed, StepsUntil("score", split), best.best_algorithm)
    ELSE Outcome(Return(AutoMlResults(best, pre, data, target_column, split)),
                 AfterCall(self, pre, {<<pre.task_type, best.best_algorithm>>}),
                 pre.printed, StepsUntil("score", split), best.best_algorithm)

\* train_auto_ml (lines 374-477); cvs[i] is what the cross-validation of the
\* i-th candidate does.
train_auto_ml(self, data, target_column, fault, cvs) ==
    CHOOSE r \in
      {IF pre.raised
       THEN Outcome(Caught(pre.error, "auto_ml", target_column),
                    AfterCall(self, pre, {}), pre.printed, <<"preprocess">>, "")
       ELSE CHOOSE q \in
              {AutoMlWith(self, data, target_column, fault, pre, best, split) :
                 split \in {SplitAutoMl(pre.n)},
                 best \in {TryAlgorithms(1, TestAlgorithms(pre.task_type), cvs,
                              [best_score |-> IF pre.task_type = "regression"
                                              THEN MinusInfinity ELSE 0,
                               best_algorithm |-> TestAlgorithms(pre.task_type)[1],
                               all_results |-> <<>>])}} : TRUE
       : pre \in {preprocess_data(self, data, target_column, fault)}} : TRUE

\* train_model (ml: lines 226-325; production: lines 107-192).
train_model(self, data, algorithm, target_column, fault, cvs) ==
    IF self.kind = "ml" /\ algorithm = "k_means"
    THEN train_clustering_model(self, data, algorithm, fault)
    ELSE IF self.kind = "ml" /\ algorithm = "auto_ml"
    THEN train_auto_ml(self, data, target_column, fault, cvs)
    ELSE TrainSupervised(self, data, algorithm, target_column, fault)

\* --- preprocess_data (ml): the table built from data, on the values

\* A cell that holds no value (None, NaN); every other cell is a number >= 1.
Missing == 0

\* A value of a dict given as data: a list of cells, or a scalar.
JList(items) == [t |-> "list", items |-> items]
JScalar(v)   == [t |-> "scalar", items |-> <<v>>]

\* A record of a list given as data: its keys in order and their cells.
JRecord(keys, cells) == [keys |-> keys, cells |-> cells]

\* data as preprocess_data receives it: a dict (its keys in order and their
\* values), a list of records, or another JSON value.
DictData(keys, vals) == [kind |-> "dict", keys |-> keys, vals |-> vals, records |-> <<>>]
ListData(records)    == [kind |-> "list", keys |-> <<>>, vals |-> <<>>, records |-> records]
ScalarData           == [kind |-> "other", keys |-> <<>>, vals |-> <<>>, records |-> <<>>]

\* A table: its column names in order and its rows, a cell per column.
Table(columns, rows) == [columns |-> columns, rows |-> rows]

TableRaise(error) == [raised |-> TRUE, error |-> error, table |-> Table(<<>>, <<>>)]
TableReturn(table) == [raised |-> FALSE, error |-> "", table |-> table]

\* The cell of record r under key k.
CellOf(r, k) ==
    IF \E i \in 1..Len(r.keys) : r.keys[i] = k
    THEN r.cells[CHOOSE i \in 1..Len(r.keys) : r.keys[i] = k]
    ELSE Missing

\* The keys of the records in the order of their first appearance.
RECURSIVE KeysInOrder(_, _)
KeysInOrder(keys, seen) ==
    IF keys = <<>> THEN seen
    ELSE KeysInOrder(Tail(keys),
                     IF Head(keys) \in Range(seen) THEN seen
                     ELSE Append(seen, Head(keys)))

RECURSIVE AllKeys(_)
AllKeys(records) ==
    IF records = <<>> THEN <<>>
    ELSE Head(records).keys \o AllKeys(Tail(records))

\* pd.DataFrame(records): a row per record, a column per key, a missing cell
\* where a record lacks the key.
FrameOfRecords(records) ==
    LET columns == KeysInOrder(AllKeys(records), <<>>)
    IN  Table(columns,
              [i \in 1..Len(records) |->
                  [j \in 1..Len(columns) |-> CellOf(records[i], columns[j])]])

\* pd.DataFrame(data) on a dict of lists: the lists must be equally long.
FrameOfLists(keys, vals) ==
    IF \E i, j \in 1..Len(vals) : Len(vals[i].items) # Len(vals[j].items)
    THEN TableRaise("Data preprocessing failed: All arrays must be of the same length")
    ELSE TableReturn(
           Table(keys,
                 [i \in 1..MaxOf({Len(vals[k].items) : k \in 1..Len(vals)}) |->
                     [j \in 1..Len(keys) |-> vals[j].items[i]]]))

\* Lines 126-134: the records made of a dict that holds a value that is no
\* list; max_len counts a scalar as one row.
RecordsOfDict(keys, vals) ==
    LET max_len == MaxOf({IF vals[k].t = "list" THEN Len(vals[k].items) ELSE 1 :
                            k \in 1..Len(vals)})
    IN  [i \in 1..max_len |->
            JRecord(keys,
                    [j \in 1..Len(keys) |->
                        IF vals[j].t = "list"
                        THEN (IF i <= Len(vals[j].items) THEN vals[j].items[i]
                              ELSE Missing)
                        ELSE vals[j].items[1]])]

\* Lines 117-138: the frame built from data.
DataFrameOf(data) ==
    IF data.kind = "dict"
    THEN IF \A k \in 1..Len(data.vals) : data.vals[k].t = "list"
         THEN FrameOfLists(data.keys, data.vals)
         ELSE IF data.keys # <<>>
         THEN TableReturn(FrameOfRecords(RecordsOfDict(data.keys, data.vals)))
         ELSE TableRaise("Data preprocessing failed: Empty data dictionary provided")
    ELSE IF data.kind = "list"
    THEN TableReturn(FrameOfRecords(data.records))
    ELSE TableRaise("Data preprocessing failed: Unsupported data format")

HasCell(cells) == \E j \in 1..Len(cells) : cells[j] # Missing

\* Lines 141-142: rows without a value are removed, then columns without one.
DropEmpty(table) ==
    LET rows == SelectSeq(table.rows, HasCell)
        keep == {j \in 1..Len(table.columns) :
                    \E i \in 1..Len(rows) : rows[i][j] # Missing}
        kept == SelectSeq([j \in 1..Len(table.columns) |-> j], LAMBDA j : j \in keep)
    IN  Table([j \in 1..Len(kept) |-> table.columns[kept[j]]],
              [i \in 1..Len(rows) |-> [j \in 1..Len(kept) |-> rows[i][kept[j]]]])

\* df.empty
IsEmpty(table) == table.rows = <<>> \/ table.columns = <<>>

\* Lines 117-146: the table preprocess_data goes on with, or the exception.
CleanTableOf(data) ==
    CHOOSE r \in
      {IF f.raised THEN f
       ELSE CHOOSE q \in
              {IF IsEmpty(t)
               THEN TableRaise("Data preprocessing failed: No valid data found after cleaning")
               ELSE TableReturn(t) : t \in {DropEmpty(f.table)}} : TRUE
       : f \in {DataFrameOf(data)}} : TRUE

\* ------------------------------------------------------------------ main

\* What a run of main leaves: the documents and lines written to stdout and
\* stderr in order, the exit status, and what train_model or clean_data
\* returned when it was called (ghost).
Json(value) == [kind |-> "json", value |-> value]
Text(value) == [kind |-> "text", value |-> value]

Run(stdout, stderr, exit_status, returned) ==
    [stdout |-> stdout, stderr |-> stderr, exit_status |-> exit_status,
     returned |-> returned]

\* The lines preprocess_data printed on one stream.
LinesOn(stream, printed) ==
    [i \in 1..Len(SelectSeq(printed, LAMBDA l : l.stream = stream)) |->
        Text(SelectSeq(printed, LAMBDA l : l.stream = stream)[i].text)]

\* The input of a run: the number of entries of sys.argv and the text main
\* parses (stdin or argv[1]): no JSON, a JSON value that is no object, or an
\* object with the fields present in it.
Request(argc, form, fields) == [argc |-> argc, form |-> form, fields |-> fields]

\* json.dumps({'error': ..., 'success': False}) of the except clauses.
ErrorDocument(error) == Json([error |-> error, success |-> FALSE])

\* The usage message of line 489 (cleaner: line 355).
UsageDocument == Json([error |-> "Usage"])

\* sanitize_for_json on a results dict: a float that is NaN or infinite
\* becomes None, so every float field holds a float or null afterwards.
FloatFields ==
    {"mse", "r2_score", "cv_mean", "cv_std", "accuracy", "silhouette_score"}

sanitize_for_json(results) ==
    [k \in DOMAIN results |->
        IF k \in FloatFields THEN "float or null" ELSE results[k]]

\* --- sanitize_for_json on the values

\* A Python value: a dict (its keys in order and their values), a list, or a
\* leaf of type t; a number is finite with value v, or NaN or an infinity.
PyLeaf(t, special, v) == [t |-> t, special |-> special, v |-> v, keys |-> <<>>, items |-> <<>>]
PyList(items)         == [t |-> "list", special |-> "", v |-> 0, keys |-> <<>>, items |-> items]
PyDict(keys, items)   == [t |-> "dict", special |-> "", v |-> 0, keys |-> keys, items |-> items]
PyNone                == PyLeaf("NoneType", "", 0)

NumpyScalars == {"np.integer", "np.floating"}

\* np.isnan(obj) or np.isinf(obj)
IsNanOrInf(obj) == obj.special \in {"nan", "inf", "-inf"}

RECURSIVE SanitizeValue(_)

\* sanitize_for_json that does not descend into lists.
SanitizeMutListKept(obj) ==
    IF obj.t = "dict"
    THEN PyDict(obj.keys, [i \in 1..Len(obj.items) |-> SanitizeValue(obj.items[i])])
    ELSE IF obj.t = "list"
    THEN obj
    ELSE IF obj.t \in NumpyScalars
    THEN (IF IsNanOrInf(obj) THEN PyNone ELSE PyLeaf("float", "finite", obj.v))
    ELSE IF obj.t = "float"
    THEN (IF IsNanOrInf(obj) THEN PyNone ELSE obj)
    ELSE obj

\* sanitize_for_json(obj), lines 49-64.
SanitizeValue(obj) ==
    IF obj.t = "dict"
    THEN PyDict(obj.keys, [i \in 1..Len(obj.items) |-> SanitizeValue(obj.items[i])])
    ELSE IF obj.t = "list"
    THEN PyList([i \in 1..Len(obj.items) |-> SanitizeValue(obj.items[i])])
    ELSE IF obj.t \in NumpyScalars
    THEN (IF IsNanOrInf(obj) THEN PyNone ELSE PyLeaf("float", "finite", obj.v))
    ELSE IF obj.t = "float"
    THEN (IF IsNanOrInf(obj) THEN PyNone ELSE obj)
    ELSE obj

\* Lines 481-498 and the except clauses (cleaner: 349-359 and 366-374): what
\* main does before it has a request to serve; Nothing when it has one.
ReadRequest(req, required, failed) ==
    IF req.argc > 2 THEN Run(<<UsageDocument>>, <<>>, 1, Nothing)
    ELSE IF req.form = "invalid"
    THEN Run(<<ErrorDocument("Invalid JSON input")>>, <<>>, 1, Nothing)
    ELSE IF req.form # "object"
    THEN Run(<<ErrorDocument(failed)>>, <<>>, 1, Nothing)
    ELSE IF \E i \in 1..Len(required) : required[i] \notin DOMAIN req.fields
    THEN Run(<<ErrorDocument("Missing required field")>>, <<>>, 1, Nothing)
    ELSE Nothing

\* main of the ml trainer once train_model gave r (lines 497-501, 509-511).
TrainerMainWith(r) ==
    IF r.out.kind = "raise"
    THEN Run(LinesOn("stdout", r.printed) \o <<ErrorDocument("Training failed")>>,
             LinesOn("stderr", r.printed), 1, r.out)
    ELSE Run(LinesOn("stdout", r.printed) \o <<Json(sanitize_for_json(r.out.value))>>,
             LinesOn("stderr", r.printed), 0, r.out)

\* main of the ml trainer (lines 479-511): the run, and the trainer it built.
TrainerMainRun(req, libs, fault, cvs) ==
    IF ReadRequest(req, <<"data", "algorithm", "target_column">>, "Training failed")
          # Nothing
    THEN [run  |-> ReadRequest(req, <<"data", "algorithm", "target_column">>,
                               "Training failed"),
          self |-> NewTrainer("ml", libs)]
    ELSE CHOOSE m \in
           {[run |-> TrainerMainWith(r), self |-> r.self] :
              r \in {train_model(NewTrainer("ml", libs), req.fields.data,
                                 req.fields.algorithm, req.fields.target_column,
                                 fault, cvs)}} : TRUE

\* main of the cleaner once clean_data gave r (lines 364, 372-374):
\* json.dumps raises on a numpy integer, which rows_affected is after
\* handle_missing_values.
CleanerMainWith(r) ==
    IF r.out.kind = "raise"
       \/ r.out.value.cleaning_report.rows_affected_type = "numpy.int64"
    THEN Run(<<ErrorDocument("Data cleaning failed")>>, <<>>, 1, r.out)
    ELSE Run(<<Json(r.out.value)>>, <<>>, 0, r.out)

\* input_data.get('options', {}) (line 359)
OptionsOf(fields) ==
    IF "options" \in DOMAIN fields THEN fields.options ELSE OptionsDict(<<>>)

\* main of the cleaner (lines 346-374): the run, and the report of the
\* cleaner it built.
CleanerMainRun(req, fault) ==
    IF ReadRequest(req, <<"data">>, "Data cleaning failed") # Nothing
    THEN [run    |-> ReadRequest(req, <<"data">>, "Data cleaning failed"),
          report |-> NewReport]
    ELSE CHOOSE m \in
           {[run |-> CleanerMainWith(r), report |-> r.report] :
              r \in {clean_data(NewReport, req.fields.data, OptionsOf(req.fields),
                                fault)}} : TRUE

\* ---------------------------------------------------------- specifications

Init ==
    /\ pc = "start"
    /\ call_in = Nothing
    /\ call_out = Nothing
    /\ cleaning_report = NewReport
    /\ trainer \in {NewTrainer("ml", {}), NewTrainer("ml", OptionalLibraries),
                    NewTrainer("production", {})}
    /\ calls = 0

\* The frames of the missing-value model: short ones, and ones whose length
\* puts a column exactly at, just below and just above 50% and 90% missing.
\* Every column is a number or a text column with 0..rows missing values.
MissingRows == {3, MaxRows - 1, MaxRows}

MissingColumn(name, d, k, rows) == Col(name, d, k, IF k = rows THEN 0 ELSE 1)

\* The frame of rows rows whose i-th column has dtype f[i][1] and f[i][2]
\* missing values.
MissingFrame(rows, f) ==
    Frame(rows, [i \in 1..NumCols |->
                    MissingColumn(ColumnName[i], f[i][1], f[i][2], rows)])

\* A call of handle_missing_values on a fresh cleaner.
HandleMissingValues ==
    /\ pc = "start"
    /\ \E rows \in MissingRows, knn_error \in BOOLEAN :
       \E f \in [1..NumCols -> {"number", "object"} \X (0..rows)] :
          LET df == MissingFrame(rows, f)
          IN  /\ call_in' = [df |-> df, strategy |-> "smart", knn_error |-> knn_error]
              /\ call_out' = handle_missing_values(df, "smart", cleaning_report, knn_error)
    /\ pc' = "handle_missing_values"
    /\ calls' = calls + 1
    /\ UNCHANGED <<cleaning_report, trainer>>

SpecMissing == Init /\ [][HandleMissingValues]_vars

\* What the 'smart' strategy is said to do with column c of frame df, as the
\* value of the ghost field fill ("dropped": the column is removed).
SmartTreatment(df, c, knn_raised) ==
    IF c.nulls = 0 THEN "none"
    ELSE IF PctAbove(c.nulls, df.rows, DropMissingPct) THEN "dropped"
    ELSE IF IsNumber(c) THEN
        IF PctBelow(c.nulls, df.rows, KnnMissingPct) /\ NumericCount(df) > 1
        THEN (IF knn_raised THEN "median" ELSE "knn")
        ELSE "median"
    ELSE IF PctBelow(c.nulls, df.rows, KnnMissingPct) THEN "mode" ELSE "unknown"

TreatmentGiven(out, name) ==
    IF HasColumn(out, name) THEN Column(out, name).fill ELSE "dropped"

\* C8: handle_missing_values with strategy 'smart' treats every column by its
\* own percentage of missing values: dropped above 90%, KNN (median if the KNN
\* step raises) for a numeric column below 50% in a frame with more than one
\* numeric column, median for any other numeric column, most frequent value
\* for a text column below 50%, 'Unknown' otherwise; columns without missing
\* values and the number of rows stay as they are.
C8_SmartTreatmentPerColumn ==
    pc = "handle_missing_values" =>
        LET df  == call_in.df
            out == call_out.df
        IN  /\ out.rows = df.rows
            /\ \A i \in 1..Len(df.cols) :
                   /\ TreatmentGiven(out, df.cols[i].name) =
                         SmartTreatment(df, df.cols[i], KnnRaises(df, call_in.knn_error))
                   /\ df.cols[i].nulls = 0 => Column(out, df.cols[i].name) = df.cols[i]

\* --- encode_categorical_variables

\* Column a has u distinct values and n missing ones (or no value at all),
\* column b is a number or a text column.
EncodeFrames ==
    {Frame(MaxUnique + 1, <<a, Col("b", d, 0, v)>>) :
        a \in {Col("a", "object", n, u) : n \in {0, 1}, u \in 1..MaxUnique}
              \cup {Col("a", "object", MaxUnique + 1, 0)},
        d \in {"number", "object"},
        v \in {1, OneHotMaxUnique + 1, LabelMaxUnique + 1}}

\* A call of encode_categorical_variables on a fresh cleaner.
EncodeCategoricalVariables ==
    /\ pc = "start"
    /\ \E df \in EncodeFrames, target_column \in {"", "a", "b", "zzz"},
          other_in_top \in BOOLEAN :
          /\ call_in' = [df |-> df, target_column |-> target_column,
                         other_in_top |-> other_in_top]
          /\ call_out' = encode_categorical_variables(df, target_column,
                                                      cleaning_report, other_in_top)
    /\ pc' = "encode_categorical_variables"
    /\ calls' = calls + 1
    /\ UNCHANGED <<cleaning_report, trainer>>

SpecEncode == Init /\ [][EncodeCategoricalVariables]_vars

\* The indicator columns of out made from column name.
IndicatorsOf(out, name) ==
    {i \in 1..Len(out.cols) : out.cols[i].name = name /\ out.cols[i].cat > 0}

\* Column c of the input is encoded in out as the claim says.
EncodedByCardinality(out, c) ==
    IF c.nuniq <= OneHotMaxUnique THEN
        /\ ~HasColumn(out, c.name)
        /\ Cardinality(IndicatorsOf(out, c.name)) = c.nuniq
    ELSE IF c.nuniq <= LabelMaxUnique THEN
        /\ HasColumn(out, c.name)
        /\ Column(out, c.name).enc = "label"
        /\ Column(out, c.name).dtype = "number"
        /\ IndicatorsOf(out, c.name) = {}
    ELSE
        /\ ~HasColumn(out, c.name)
        /\ Cardinality(IndicatorsOf(out, c.name)) \in
               {TopCategories, TopCategories + 1}

LeftAlone(out, c) ==
    /\ HasColumn(out, c.name)
    /\ Column(out, c.name) = c
    /\ IndicatorsOf(out, c.name) = {}

\* C10 as stated: every text column is encoded by its number of distinct
\* values (one-hot up to 10, label 11 to 50, top-20 grouping then one-hot
\* above 50, at most 21 indicators); rows and non-text columns are unchanged.
C10_EveryTextColumnEncoded ==
    pc = "encode_categorical_variables" =>
        LET df == call_in.df  out == call_out.df
        IN  /\ out.rows = df.rows
            /\ \A i \in 1..Len(df.cols) :
                   IF IsObject(df.cols[i])
                   THEN EncodedByCardinality(out, df.cols[i])
                   ELSE LeftAlone(out, df.cols[i])

\* C10 amended: the same for every text column other than the one named by
\* target_column, which is left as it is like the non-text columns.
C10_TextColumnsButTargetEncoded ==
    pc = "encode_categorical_variables" =>
        LET df == call_in.df  out == call_out.df
        IN  /\ out.rows = df.rows
            /\ \A i \in 1..Len(df.cols) :
                   IF IsObject(df.cols[i]) /\ df.cols[i].name # call_in.target_column
                   THEN EncodedByCardinality(out, df.cols[i])
                   ELSE LeftAlone(out, df.cols[i])

\* A column of more than 50 distinct values was grouped into 21 indicators
\* while the text target column beside it was kept.
C10_Witness ==
    /\ pc = "encode_categorical_variables"
    /\ call_in.target_column = "b"
    /\ IsObject(call_in.df.cols[2])
    /\ call_in.df.cols[1].nuniq > LabelMaxUnique
    /\ Cardinality(IndicatorsOf(call_out.df, "a")) = TopCategories + 1
    /\ HasColumn(call_out.df, "b")

\* --- handle_outliers

\* The values a column of the outlier model is made of: a base pattern of m
\* distinct values, with up to two rows replaced by another value.
BaseVals(m) == [r \in 1..OutlierRows |-> Unit * ((r - 1) % m)]

OtherValues == {Unit * v : v \in {-40, -1, 5, 30, 100}}

OutlierColumns ==
    LET bases == {BaseVals(m) : m \in {SkipMaxUnique - 1, SkipMaxUnique, OutlierRows}}
        one   == {[b EXCEPT ![p] = v] : b \in bases, p \in 1..OutlierRows,
                                       v \in OtherValues}
        two   == {[b EXCEPT ![1] = v] : b \in one, v \in OtherValues}
    IN  bases \cup one \cup two

OutlierFrames ==
    {Frame(OutlierRows, <<ValCol("a", d, vals), ValCol("b", "object", BaseVals(3))>>) :
        d \in {"number", "object"}, vals \in OutlierColumns}

\* A call of handle_outliers on a fresh cleaner.
HandleOutliers ==
    /\ pc = "start"
    /\ \E df \in OutlierFrames, method \in {"iqr", "none"} :
          /\ call_in' = [df |-> df, method |-> method]
          /\ call_out' = handle_outliers(df, method, cleaning_report)
    /\ pc' = "handle_outliers"
    /\ calls' = calls + 1
    /\ UNCHANGED <<cleaning_report, trainer>>

SpecOutliers == Init /\ [][HandleOutliers]_vars

\* Column c is one the loop processes.
Processed(c) == c.dtype = "number" /\ NUnique(c.vals) > SkipMaxUnique

\* C9: handle_outliers keeps the rows, their order and the columns; a text
\* column and a numeric column of at most 10 distinct values are unchanged;
\* with method 'iqr' every value of a processed column ends inside
\* [Q1 - 1.5*IQR, Q3 + 1.5*IQR] of the column before the call, and a value
\* already inside keeps its value.
C9_OutliersCappedNotRemoved ==
    pc = "handle_outliers" =>
        LET df == call_in.df  out == call_out.df
        IN  /\ out.rows = df.rows
            /\ Len(out.cols) = Len(df.cols)
            /\ \A i \in 1..Len(df.cols) :
                  LET c == df.cols[i]
                      o == out.cols[i]
                      b == IqrBounds(c.vals)
                  IN  /\ o.name = c.name
                      /\ Len(o.vals) = Len(c.vals)
                      /\ ~Processed(c) => o = c
                      /\ (Processed(c) /\ call_in.method = "iqr") =>
                            \A r \in 1..Len(c.vals) :
                               /\ b.lower <= o.vals[r] /\ o.vals[r] <= b.upper
                               /\ (b.lower <= c.vals[r] /\ c.vals[r] <= b.upper)
                                     => o.vals[r] = c.vals[r]

\* A processed column had one value capped at each bound and the others kept.
C9_Witness ==
    /\ pc = "handle_outliers"
    /\ call_in.method = "iqr"
    /\ Processed(call_in.df.cols[1])
    /\ LET c == call_in.df.cols[1]
           o == call_out.df.cols[1]
           b == IqrBounds(c.vals)
       IN  /\ \E r \in 1..Len(c.vals) : c.vals[r] > b.upper /\ o.vals[r] = b.upper
           /\ \E r \in 1..Len(c.vals) : c.vals[r] < b.lower /\ o.vals[r] = b.lower
           /\ \E r \in 1..Len(c.vals) : o.vals[r] = c.vals[r]

\* --- clean_data

\* Data as clean_data receives it: a dict or a list with the frame pandas
\* builds from it and the facts the steps read off it, or any other value.
CleanData_(kind, df, dups) ==
    [kind |-> kind, df |-> df, dups |-> dups, knn_error |-> FALSE,
     other_in_top |-> FALSE]

CleanRows == MaxUnique + 1

CleanColumnsA ==
    {[Col("a", "number", 0, CleanRows - 1) EXCEPT !.outliers = 2],
     Col("Total Sales", "number", 2, 3),
     Col("A", "object", 1, LabelMaxUnique + 1)}

CleanColumnsB ==
    {Col("b", "number", CleanRows - 1, 1),
     [Col("b", "object", CleanRows - 1, 1) EXCEPT !.numlike = TRUE],
     [Col("a", "object", 0, OneHotMaxUnique + 1) EXCEPT !.numlike = TRUE]}

CleanFrames ==
    {Frame(CleanRows, <<a, b>>) : a \in CleanColumnsA, b \in CleanColumnsB}
    \cup {Frame(0, <<>>)}

\* dups rows repeat an earlier row (none in the empty frame).
CleanInputs ==
    {CleanData_(kind, df, dups) :
        kind \in {"dict", "list"}, df \in CleanFrames \ {Frame(0, <<>>)},
        dups \in {0, 1}}
    \cup {CleanData_(kind, Frame(0, <<>>), 0) : kind \in {"dict", "list", "other"}}

CleanOptions ==
    {OptionsNone, OptionsOther, OptionsDict(<<>>),
     OptionsDict([encode_categorical |-> TRUE, target_column |-> "b"]),
     OptionsDict([handle_missing |-> FALSE, remove_duplicates |-> FALSE,
                  outlier_method |-> "zscore"]),
     OptionsDict([clean_column_names |-> FALSE, convert_types |-> FALSE,
                  handle_outliers |-> FALSE, encode_categorical |-> TRUE])}

CleanFaults ==
    {"none", "construct", "analyze", "names", "missing", "types", "duplicates",
     "outliers", "encode"}

\* A call of clean_data on the instance, drawn from the given inputs.
CallCleanData(inputs, options, faults) ==
    \E data \in inputs, opts \in options, fault \in faults :
        \E r \in {clean_data(cleaning_report, data, opts, fault)} :
            /\ call_in' = [data |-> data, options |-> opts, fault |-> fault]
            /\ call_out' = [out |-> r.out, steps |-> r.steps]
            /\ cleaning_report' = r.report
            /\ pc' = "clean_data"
            /\ calls' = calls + 1
            /\ UNCHANGED trainer

\* A call of clean_data on a fresh cleaner.
CleanData ==
    /\ pc = "start"
    /\ CallCleanData(CleanInputs, CleanOptions, CleanFaults)

SpecClean == Init /\ [][CleanData]_vars

\* The frame of the call is one whose column names stay distinct.
NamesStayDistinct(df) ==
    \A i, j \in 1..Len(df.cols) :
        Standardized(df.cols[i].name) = Standardized(df.cols[j].name) => i = j

\* C4: clean_data never raises.  Data that is neither a dict nor a list, or
\* a step that raises, gives success False with error and the report so far;
\* otherwise success True with cleaned_data, cleaning_report and a summary
\* holding the shape before the first step and after the last, the number of
\* operations and of issues of the report; the rows never grow.
C4_CleanDataResult ==
    pc = "clean_data" =>
        LET data == call_in.data
            r    == call_out.out.value
        IN  /\ call_out.out.kind = "return"
            /\ r.success \in BOOLEAN
            /\ ~r.success =>
                  /\ DOMAIN r = {"success", "error", "cleaning_report"}
                  /\ r.cleaning_report = cleaning_report
            /\ r.success =>
                  /\ DOMAIN r = {"success", "cleaned_data", "cleaning_report", "summary"}
                  /\ r.cleaning_report = cleaning_report
                  /\ r.summary.original_rows = data.df.rows
                  /\ r.summary.original_columns = Len(data.df.cols)
                  /\ r.summary.final_rows = r.cleaned_data.rows
                  /\ r.summary.final_columns = Len(r.cleaned_data.cols)
                  /\ r.summary.operations_count =
                        Len(r.cleaning_report.operations_performed)
                  /\ r.summary.issues_found =
                        Len(r.cleaning_report.data_quality_issues)
                  /\ r.summary.final_rows <= r.summary.original_rows
            /\ data.kind \notin {"dict", "list"} => ~r.success
            /\ (call_in.fault = "construct"
                  \/ call_in.fault \in Range(call_out.steps)) => ~r.success
            /\ (/\ data.kind \in {"dict", "list"}
                /\ call_in.fault = "none"
                /\ call_in.options.kind # "other"
                /\ NamesStayDistinct(data.df)) => r.success

\* A successful call that dropped a column and removed duplicate rows.
C4_Witness ==
    /\ pc = "clean_data"
    /\ call_out.out.value.success
    /\ call_out.out.value.summary.final_rows < call_in.data.df.rows
    /\ call_out.out.value.summary.final_columns < Len(call_in.data.df.cols)
    /\ call_out.out.value.summary.operations_count > 1
    /\ call_out.out.value.summary.issues_found > 0

\* A call that failed in a step after another step had reported.
C4_WitnessFailure ==
    /\ pc = "clean_data"
    /\ ~call_out.out.value.success
    /\ call_out.steps # <<>>
    /\ cleaning_report.operations_performed # <<>>

\* --- train_model and preprocess_data

\* Samples of a frame in the trainer model.
MaxTrainRows == 22

\* The target column y of a frame: nvalid values, all alike or all distinct,
\* in a numeric column, a text column, a text column of numbers or a text
\* column half of whose values are numbers.
TargetForms == {"number", "text", "numeric text", "mixed text"}

TargetColumn(form, nvalid, distinct) ==
    TCol("y", IF form = "number" THEN "number" ELSE "object", nvalid,
         CASE form = "text"         -> 0
           [] form = "mixed text"   -> nvalid \div 2
           [] OTHER                 -> nvalid,
         IF distinct THEN nvalid ELSE Min(1, nvalid))

\* A list of records with target y (missing in `missing` more records) and
\* the feature column x of dtype xtype, if any.
TrainRecords(y, missing, xtype) ==
    TrainData("list", y.nvalid + missing, y.nvalid + missing,
              IF xtype = "none" THEN missing ELSE 0,
              IF xtype = "none" THEN <<y>>
              ELSE <<TCol("x", xtype, y.nvalid + missing,
                          IF xtype = "number" THEN y.nvalid + missing ELSE 0,
                          Min(2, y.nvalid + missing)), y>>)

\* A JSON value that is neither a list nor a dict.
OtherData == TrainData("other", 0, 0, 0, <<>>)

Algorithms ==
    {"linear_regression", "logistic_regression", "xgboost", "svr", "bogus",
     "k_means", "auto_ml"}

TrainFaults == {"none", "preprocess", "split", "fit", "predict", "score"}

\* What the cross-validations of the four candidates of auto_ml do.
NoCvs == <<>>

AutoCvs ==
    {[i \in 1..4 |-> CvOutcome(TRUE, 0)],
     [i \in 1..4 |-> CvOutcome(FALSE, 0)],
     <<CvOutcome(FALSE, 1), CvOutcome(TRUE, 0), CvOutcome(FALSE, 2), CvOutcome(FALSE, 2)>>}

\* A call of train_model on the instance.
CallTrainModel(data, algorithm, target_column, fault, cvs) ==
    \E r \in {train_model(trainer, data, algorithm, target_column, fault, cvs)} :
        /\ call_in' = [data |-> data, algorithm |-> algorithm,
                       target_column |-> target_column, fault |-> fault,
                       cvs |-> cvs, trainer |-> trainer]
        /\ call_out' = [out |-> r.out, printed |-> r.printed, steps |-> r.steps,
                        fitted |-> r.fitted]
        /\ trainer' = r.self
        /\ pc' = "train_model"
        /\ calls' = calls + 1
        /\ UNCHANGED cleaning_report

\* A call of train_model on a fresh trainer.
TrainModel ==
    /\ pc = "start"
    /\ \E nvalid \in 0..MaxTrainRows, form \in TargetForms, distinct \in BOOLEAN,
          missing \in {0, 1}, xtype \in {"none", "number", "object"},
          algorithm \in Algorithms, target_column \in {"y", "zzz"},
          fault \in TrainFaults :
         \E cvs \in IF algorithm = "auto_ml" /\ trainer.kind = "ml"
                    THEN AutoCvs ELSE {NoCvs} :
            CallTrainModel(TrainRecords(TargetColumn(form, nvalid, distinct),
                                        missing, xtype),
                           algorithm, target_column, fault, cvs)

\* A call of train_model with a value that is no table.
TrainModelOther ==
    /\ pc = "start"
    /\ \E algorithm \in Algorithms, fault \in TrainFaults :
          CallTrainModel(OtherData, algorithm, "y", fault, NoCvs)

SpecTrain == Init /\ [][TrainModel \/ TrainModelOther]_vars

C7_AlgorithmFieldIsFittedKey ==
    pc = "train_model" =>
        LET r == call_out.out.value
            auto == call_in.trainer.kind = "ml" /\ call_in.algorithm = "auto_ml"
        IN  /\ "random_forest" \in DOMAIN regression_models(call_in.trainer)
            /\ "random_forest" \in DOMAIN classification_models(call_in.trainer)
            /\ call_out.steps # <<>> /\ ~r.success =>
                  call_out.steps[Len(call_out.steps)] # "lookup"
            /\ (r.success /\ ~auto) =>
                  /\ r.algorithm \in DOMAIN Registry(call_in.trainer, r.task_type)
                  /\ r.algorithm = call_out.fitted
                  /\ r.algorithm =
                        IF call_in.algorithm \in DOMAIN Registry(call_in.trainer, r.task_type)
                        THEN call_in.algorithm ELSE "random_forest"
            /\ (r.success /\ auto) =>
                  /\ r.algorithm = "auto_ml"
                  /\ r.best_algorithm = call_out.fitted
                  /\ r.best_algorithm \in DOMAIN Registry(call_in.trainer, r.task_type)

\* C7 as stated: the algorithm field of every successful result is the
\* registry key of the estimator fitted.
C7_EveryAlgorithmFieldIsFittedKey ==
    pc = "train_model" =>
        (call_out.out.value.success =>
            /\ call_out.out.value.algorithm = call_out.fitted
            /\ call_out.out.value.algorithm \in
                  DOMAIN Registry(call_in.trainer, call_out.out.value.task_type))

\* A name of the other task type was replaced by random_forest.
C7_Witness ==
    /\ pc = "train_model"
    /\ call_in.algorithm = "logistic_regression"
    /\ call_out.out.value.success
    /\ call_out.out.value.task_type = "regression"
    /\ call_out.out.value.algorithm = "random_forest"
    /\ call_out.fitted = "random_forest"

\* --- preprocess_data

\* A call of preprocess_data on a fresh trainer.
PreprocessData ==
    /\ pc = "start"
    /\ \E nvalid \in 0..MaxTrainRows, form \in TargetForms, distinct \in BOOLEAN,
          missing \in {0, 1}, xtype \in {"none", "number", "object"},
          target_column \in {"y", "x", "zzz"}, fault \in {"none", "preprocess"} :
         \E data \in {TrainRecords(TargetColumn(form, nvalid, distinct), missing, xtype)} :
         \E pre \in {preprocess_data(trainer, data, target_column, fault)} :
            /\ call_in' = [data |-> data, target_column |-> target_column,
                           fault |-> fault, trainer |-> trainer]
            /\ call_out' = pre
            /\ trainer' = AfterCall(trainer, pre, {})
    /\ pc' = "preprocess_data"
    /\ calls' = calls + 1
    /\ UNCHANGED cleaning_report

SpecPreprocess == Init /\ [][PreprocessData]_vars

\* The target column of the last call as the frame holds it.
TargetGiven == TColumn(call_in.data.cols, call_out.target)

\* C6: the task is a classification exactly when the target is a text column
\* with at most 20 distinct values (in the ml trainer: none of which parses
\* as a number); any other target is a regression.
C6_TaskTypeByDtypeAndUniques ==
    (pc = "preprocess_data" /\ ~call_out.raised) =>
        (call_out.task_type = "classification" <=>
            /\ TargetGiven.dtype = "object"
            /\ TargetGiven.nuniq <= 20
            /\ call_in.trainer.kind = "ml" => TargetGiven.nparse = 0)
        /\ call_out.task_type \in {"classification", "regression"}

\* C6 as stated: at most 20 distinct values is a classification, more a
\* regression.
C6_TaskTypeByUniques ==
    (pc = "preprocess_data" /\ ~call_out.raised) =>
        (call_out.task_type = "classification" <=> TargetGiven.nuniq <= 20)

\* A text target with exactly 20 distinct values became a classification.
C6_Witness ==
    /\ pc = "preprocess_data"
    /\ ~call_out.raised
    /\ TargetGiven.nuniq = 20
    /\ TargetGiven.dtype = "object"
    /\ call_out.task_type = "classification"

\* --- main

\* The requests of the model: one, two or three entries in sys.argv; a text
\* that is no JSON, a JSON array, or an object with some of its fields.
RequestForms == {"invalid", "array", "object"}

Requests(fields, present) ==
    {Request(argc, form, IF form = "object" THEN [k \in p |-> fields[k]] ELSE <<>>) :
        argc \in 1..3, form \in RequestForms, p \in present}

\* A run of the ml trainer's main.
TrainerMain ==
    /\ pc = "start"
    /\ trainer.kind = "ml"
    /\ \E nvalid \in {1, 6, MaxTrainRows - 1}, form \in TargetForms,
          algorithm \in Algorithms, target_column \in {"y", "zzz"},
          fault \in {"none", "fit"} :
       \E cvs \in IF algorithm = "auto_ml" THEN AutoCvs ELSE {NoCvs} :
       \E req \in Requests([data |-> TrainRecords(TargetColumn(form, nvalid, TRUE),
                                                   0, "number"),
                            algorithm |-> algorithm,
                            target_column |-> target_column],
                           {{"data", "algorithm", "target_column"},
                            {"algorithm", "target_column"}, {"data", "target_column"},
                            {"data", "algorithm"}}) :
       \E m \in {TrainerMainRun(req, trainer.libs, fault, cvs)} :
          /\ call_in' = [req |-> req, fault |-> fault, cvs |-> cvs]
          /\ call_out' = m.run
          /\ trainer' = m.self
    /\ pc' = "trainer_main"
    /\ calls' = calls + 1
    /\ UNCHANGED cleaning_report

\* A run of the cleaner's main.
CleanerMain ==
    /\ pc = "start"
    /\ \E data \in CleanInputs, options \in CleanOptions,
          fault \in {"none", "missing", "encode"} :
       \E req \in Requests([data |-> data, options |-> options],
                           {{"data", "options"}, {"data"}, {"options"}, {}}) :
       \E m \in {CleanerMainRun(req, fault)} :
          /\ call_in' = [req |-> req, fault |-> fault, cvs |-> NoCvs]
          /\ call_out' = m.run
          /\ cleaning_report' = m.report
    /\ pc' = "cleaner_main"
    /\ calls' = calls + 1
    /\ UNCHANGED trainer

SpecMain == Init /\ [][TrainerMain \/ CleanerMain]_vars

\* The fields main needs in the request of the last run.
RequiredFields ==
    IF pc = "trainer_main" THEN {"data", "algorithm", "target_column"} ELSE {"data"}

\* The last run had a request main could not serve, or an exception escaped
\* from the call or from writing its result.
RequestRefused ==
    \/ call_in.req.argc > 2
    \/ call_in.req.form # "object"
    \/ ~(RequiredFields \subseteq DOMAIN call_in.req.fields)

ExceptionEscaped ==
    /\ ~RequestRefused
    /\ \/ call_out.returned.kind = "raise"
       \/ /\ pc = "cleaner_main"
          /\ call_out.returned.value.cleaning_report.rows_affected_type = "numpy.int64"

\* C2: more than one argument ends the run with status 1; the status is 1
\* exactly when the request is refused or an exception escapes, and then the
\* JSON object printed holds an error and success false; a failure returned
\* by train_model or clean_data is printed and the status is 0.
C2_ExitStatusAndErrorDocument ==
    pc \in {"trainer_main", "cleaner_main"} =>
        LET last == call_out.stdout[Len(call_out.stdout)]
        IN  /\ call_out.stdout # <<>>
            /\ last.kind = "json"
            /\ call_in.req.argc > 2 => call_out.exit_status = 1
            /\ call_out.exit_status = 1 <=> (RequestRefused \/ ExceptionEscaped)
            /\ call_out.exit_status = 1 =>
                  /\ {"error", "success"} \subseteq DOMAIN last.value
                  /\ last.value.success = FALSE
            /\ (/\ ~RequestRefused
                /\ call_out.returned.kind = "return"
                /\ ~call_out.returned.value.success) =>
                  /\ call_out.exit_status = 0
                  /\ DOMAIN last.value = DOMAIN call_out.returned.value
                  /\ last.value.success = FALSE

\* C3: a run of the ml trainer's main writes one JSON document to stdout and
\* nothing else; the lines printed while preprocessing are on stderr.
C3_StdoutIsOneJsonDocument ==
    pc = "trainer_main" =>
        /\ Len(call_out.stdout) = 1
        /\ call_out.stdout[1].kind = "json"
        /\ \A i \in 1..Len(call_out.stdout) : call_out.stdout[i].kind # "text"

\* --- an instance that serves more than one call

\* Calls served by one instance.
MaxCalls == 2

ReuseCleanData ==
    /\ calls < MaxCalls
    /\ CallCleanData({CleanData_("dict", Frame(CleanRows, <<a, b>>), 1) :
                         a \in CleanColumnsA, b \in CleanColumnsB},
                     {OptionsNone, OptionsDict([handle_missing |-> FALSE])},
                     {"none"})

ReuseTrainModel ==
    /\ calls < MaxCalls
    /\ \E nvalid \in {6, MaxTrainRows - 1}, form \in {"number", "text"},
          xtype \in {"number", "object"}, algorithm \in {"random_forest", "k_means"},
          fault \in {"none", "fit"} :
          CallTrainModel(TrainRecords(TargetColumn(form, nvalid, FALSE), 0, xtype),
                         algorithm, "y", fault, NoCvs)

SpecReuse == Init /\ [][ReuseCleanData \/ ReuseTrainModel]_vars

\* C5: a call on an instance that has served earlier calls gives what the
\* same call gives on a fresh instance.
C5_SameAsOnFreshInstance ==
    /\ pc = "clean_data" =>
          call_out.out = clean_data(NewReport, call_in.data, call_in.options,
                                    call_in.fault).out
    /\ pc = "train_model" =>
          call_out.out = train_model(NewTrainer(call_in.trainer.kind,
                                                call_in.trainer.libs),
                                     call_in.data, call_in.algorithm,
                                     call_in.target_column, call_in.fault,
                                     call_in.cvs).out

\* The same for train_model alone.
C5_TrainModelSameAsOnFreshInstance ==
    pc = "train_model" =>
        call_out.out = train_model(NewTrainer(call_in.trainer.kind,
                                              call_in.trainer.libs),
                                   call_in.data, call_in.algorithm,
                                   call_in.target_column, call_in.fault,
                                   call_in.cvs).out

\* ------------------------------------------- preprocess_data: data shapes

\* The longest list in the data the model builds.
MaxListLen == 2

Cells == {Missing, 1}

ListsOfCells == UNION {[1..n -> Cells] : n \in 0..MaxListLen}

DictValues == {JList(l) : l \in ListsOfCells} \cup {JScalar(v) : v \in Cells}

RecordKeys == {<<>>, <<"a">>, <<"b">>, <<"a", "b">>, <<"b", "a">>}

RecordsGiven == UNION {{JRecord(keys, cells) : cells \in [1..Len(keys) -> Cells]} :
                          keys \in RecordKeys}

\* The ml trainer builds its table from the data of one call.
BuildTable ==
    /\ pc = "start"
    /\ trainer.kind = "ml"
    /\ \E data \in {DictData(SubSeq(<<"a", "b">>, 1, n), vals) :
                        n \in 0..2, vals \in UNION {[1..m -> DictValues] : m \in 0..2}}
                   \cup {ListData(records) :
                        records \in UNION {[1..n -> RecordsGiven] : n \in 0..MaxListLen}}
                   \cup {ScalarData} :
         /\ Len(data.keys) = Len(data.vals)
         /\ call_in' = [data |-> data]
         /\ call_out' = [frame |-> DataFrameOf(data), out |-> CleanTableOf(data)]
    /\ pc' = "build_table"
    /\ calls' = calls + 1
    /\ UNCHANGED <<cleaning_report, trainer>>

SpecTable == Init /\ [][BuildTable]_vars

AllLists(data) == \A k \in 1..Len(data.vals) : data.vals[k].t = "list"

\* The dict holds a list and a scalar.
Mixed(data) ==
    /\ \E k \in 1..Len(data.vals) : data.vals[k].t = "list"
    /\ \E k \in 1..Len(data.vals) : data.vals[k].t = "scalar"

LongestList(data) ==
    MaxOf({Len(data.vals[k].items) : k \in {j \in 1..Len(data.vals) : data.vals[j].t = "list"}})

\* C11: the ml trainer builds one table from a list of records, from a dict
\* of lists (a column per key) and from a dict mixing lists and scalars (as
\* many rows as the longest list, scalars repeated, shorter lists padded);
\* other data is refused as unsupported; rows and columns without a value
\* are removed and a table left empty is refused.
C11_OneTableFromEachShape ==
    pc = "build_table" =>
        LET data  == call_in.data
            frame == call_out.frame
            out   == call_out.out
        IN  /\ data.kind = "other" =>
                 /\ out.raised
                 /\ out.error = "Data preprocessing failed: Unsupported data format"
            /\ data.kind = "list" =>
                 /\ ~frame.raised
                 /\ Len(frame.table.rows) = Len(data.records)
            /\ (data.kind = "dict" /\ AllLists(data)) =>
                 /\ ~frame.raised
                 /\ frame.table.columns = data.keys
            /\ (data.kind = "dict" /\ Mixed(data)) =>
                 /\ ~frame.raised
                 /\ frame.table.columns = data.keys
                 /\ Len(frame.table.rows) = LongestList(data)
                 /\ \A i \in 1..Len(frame.table.rows), j \in 1..Len(data.keys) :
                      frame.table.rows[i][j] =
                        IF data.vals[j].t = "scalar" THEN data.vals[j].items[1]
                        ELSE IF i <= Len(data.vals[j].items) THEN data.vals[j].items[i]
                        ELSE Missing
            /\ data.kind \in {"list", "dict"} =>
                 IF frame.raised \/ IsEmpty(DropEmpty(frame.table))
                 THEN /\ out.raised
                      /\ out.error = "Data preprocessing failed: No valid data found after cleaning"
                 ELSE /\ ~out.raised
                      /\ out.table = DropEmpty(frame.table)
                      /\ \A i \in 1..Len(out.table.rows) : HasCell(out.table.rows[i])
                      /\ \A j \in 1..Len(out.table.columns) :
                           \E i \in 1..Len(out.table.rows) : out.table.rows[i][j] # Missing

\* What holds of the table: a dict of lists of unequal lengths is refused,
\* a dict holding a scalar has at least one row, and every other part of
\* C11 is as stated.
C11_TableOrRefusal ==
    pc = "build_table" =>
        LET data  == call_in.data
            frame == call_out.frame
            out   == call_out.out
            ragged == /\ data.kind = "dict"
                      /\ AllLists(data)
                      /\ \E i, j \in 1..Len(data.vals) :
                           Len(data.vals[i].items) # Len(data.vals[j].items)
        IN  /\ data.kind = "other" =>
                 /\ out.raised
                 /\ out.error = "Data preprocessing failed: Unsupported data format"
            /\ ragged <=> (frame.raised /\ data.kind # "other")
            /\ ragged => (out.raised /\ out.error = frame.error)
            /\ data.kind = "list" => Len(frame.table.rows) = Len(data.records)
            /\ (data.kind = "dict" /\ ~frame.raised) =>
                 /\ frame.table.columns = data.keys
                 /\ Len(frame.table.rows) =
                      IF AllLists(data) THEN LongestList(data)
                      ELSE MaxOf({LongestList(data), 1})
                 /\ \A i \in 1..Len(frame.table.rows), j \in 1..Len(data.keys) :
                      frame.table.rows[i][j] =
                        IF data.vals[j].t = "scalar" THEN data.vals[j].items[1]
                        ELSE IF i <= Len(data.vals[j].items) THEN data.vals[j].items[i]
                        ELSE Missing
            /\ ~frame.raised =>
                 IF IsEmpty(DropEmpty(frame.table))
                 THEN /\ out.raised
                      /\ out.error = "Data preprocessing failed: No valid data found after cleaning"
                 ELSE /\ ~out.raised
                      /\ out.table = DropEmpty(frame.table)
                      /\ \A i \in 1..Len(out.table.rows) : HasCell(out.table.rows[i])
                      /\ \A j \in 1..Len(out.table.columns) :
                           \E i \in 1..Len(out.table.rows) : out.table.rows[i][j] # Missing

\* A dict of two lists of unequal lengths was given.
C11_RaggedLists ==
    /\ pc = "build_table"
    /\ call_in.data.kind = "dict"
    /\ AllLists(call_in.data)
    /\ call_out.frame.raised

\* ------------------------------------------------------- sanitize_for_json

\* The nesting depth of the values the model builds.
MaxDepth == 3

Leaves ==
    {PyLeaf(t, special, 1) : t \in {"float", "np.floating"},
                             special \in {"finite", "nan", "inf", "-inf"}}
    \cup {PyLeaf("np.integer", "finite", 2), PyLeaf("int", "finite", 3),
          PyLeaf("str", "", 0), PyNone}

\* The leaves put beside a nested value.
SideLeaves == {PyLeaf("float", "nan", 1), PyLeaf("str", "", 0)}

RECURSIVE Nested(_)
Nested(d) ==
    IF d = 0 THEN Leaves
    ELSE LET below == Nested(d - 1)
         IN  Leaves \cup {PyList(<<>>), PyDict(<<>>, <<>>)}
             \cup {PyList(<<x>>) : x \in below}
             \cup {PyDict(<<"a">>, <<x>>) : x \in below}
             \cup {PyList(<<l, x>>) : l \in SideLeaves, x \in below}
             \cup {PyList(<<x, l>>) : l \in SideLeaves, x \in below}
             \cup {PyDict(<<"a", "b">>, <<l, x>>) : l \in SideLeaves, x \in below}

\* main of the ml trainer sanitizes a value.
SanitizeForJson ==
    /\ pc = "start"
    /\ \E obj \in Nested(MaxDepth) :
         /\ call_in' = [obj |-> obj]
         /\ call_out' = [value |-> SanitizeValue(obj)]
    /\ pc' = "sanitize_for_json"
    /\ calls' = calls + 1
    /\ UNCHANGED <<cleaning_report, trainer>>

SpecSanitize == Init /\ [][SanitizeForJson]_vars

\* obj is a float or a numpy scalar that is NaN or an infinity.
NotFinite(obj) == obj.t \in {"float", "np.floating", "np.integer"} /\ IsNanOrInf(obj)

\* out is obj with None for every NaN and infinity: same keys, same lengths
\* and order, every other value equal in value.
RECURSIVE Sanitized(_, _)
Sanitized(obj, out) ==
    IF obj.t \in {"dict", "list"}
    THEN /\ out.t = obj.t
         /\ out.keys = obj.keys
         /\ Len(out.items) = Len(obj.items)
         /\ \A i \in 1..Len(obj.items) : Sanitized(obj.items[i], out.items[i])
    ELSE IF NotFinite(obj) THEN out = PyNone
    ELSE IF obj.t \in {"float", "np.floating", "np.integer", "int"}
    THEN /\ out.t \in {"float", "np.floating", "np.integer", "int"}
         /\ out.special = "finite"
         /\ out.v = obj.v
    ELSE out = obj

\* No NaN and no infinity at any depth of obj.
RECURSIVE AllFinite(_)
AllFinite(obj) ==
    IF obj.t \in {"dict", "list"}
    THEN \A i \in 1..Len(obj.items) : AllFinite(obj.items[i])
    ELSE ~NotFinite(obj)

MaxScore == 2

\* A mean score that is NaN (a fold without a score): `score > best_score`
\* is false for it whatever best_score is.
NanScore == 0 - 2

CvOutcomes ==
    {CvOutcome(TRUE, 0), CvOutcome(FALSE, NanScore)}
    \cup {CvOutcome(FALSE, s) : s \in 0..MaxScore}

\* train_model with algorithm 'auto_ml' on the ml trainer, whatever the four
\* cross-validations do.
TrainAutoMl ==
    /\ pc = "start"
    /\ trainer.kind = "ml"
    /\ \E nvalid \in {2, 3, 6}, form \in {"number", "text"}, fault \in {"none", "fit"},
          cvs \in [1..4 -> CvOutcomes] :
         CallTrainModel(TrainRecords(TargetColumn(form, nvalid, TRUE), 0, "number"),
                        "auto_ml", "y", fault, cvs)

SpecAutoMl == Init /\ [][TrainAutoMl]_vars

\* The candidates whose cross-validation gave a score, in their order.
RECURSIVE Scored(_, _, _)
Scored(i, algos, cvs) ==
    IF i > Len(algos) THEN <<>>
    ELSE (IF cvs[i].raised THEN <<>> ELSE <<algos[i]>>) \o Scored(i + 1, algos, cvs)

\* Score a is strictly higher than score b.
Higher(a, b) == a # NanScore /\ b # NanScore /\ a > b

\* C13: auto_ml tests the four candidates of the task type in order, skips a
\* candidate whose cross-validation raises, and reports as best_algorithm a
\* tested candidate with the highest score, the earliest one among equals.
C13_BestOfTested ==
    (pc = "train_model" /\ call_out.out.kind = "return" /\ call_out.out.value.success) =>
        LET r      == call_out.out.value
            tested == r.tested_algorithms
        IN  /\ [i \in 1..Len(tested) |-> tested[i].algorithm]
                 = Scored(1, TestAlgorithms(r.task_type), call_in.cvs)
            /\ \E i \in 1..Len(tested) :
                 /\ tested[i].algorithm = r.best_algorithm
                 /\ \A j \in 1..Len(tested) : ~Higher(tested[j].score, tested[i].score)
                 /\ \A j \in 1..(i - 1) : tested[j].score # tested[i].score

\* What holds: the candidates that did not raise are all tested, in order;
\* best_algorithm is the earliest tested candidate with the highest score
\* when that score is above the starting best_score (0.0 for a
\* classification, -inf for a regression), and the first candidate of the
\* list otherwise, tested or not.
C13_BestOrFirstCandidate ==
    (pc = "train_model" /\ call_out.out.kind = "return" /\ call_out.out.value.success) =>
        LET r      == call_out.out.value
            tested == r.tested_algorithms
            start  == IF r.task_type = "regression" THEN MinusInfinity ELSE 0
            above  == {i \in 1..Len(tested) : tested[i].score > start}
        IN  /\ [i \in 1..Len(tested) |-> tested[i].algorithm]
                 = Scored(1, TestAlgorithms(r.task_type), call_in.cvs)
            /\ IF above = {}
               THEN r.best_algorithm = TestAlgorithms(r.task_type)[1]
               ELSE \E i \in above :
                      /\ tested[i].algorithm = r.best_algorithm
                      /\ \A j \in 1..Len(tested) : tested[j].score <= tested[i].score
                      /\ \A j \in 1..(i - 1) : tested[j].score < tested[i].score

\* Every cross-validation raised and the result is a success.
C13_NoneTested ==
    /\ pc = "train_model"
    /\ call_out.out.kind = "return"
    /\ call_out.out.value.success
    /\ call_out.out.value.tested_algorithms = <<>>

\* ------------------------------------------------ clean_data: step order

\* The steps after the analysis, in the order of clean_data, and the option
\* that switches each.
StepNames == <<"names", "missing", "types", "duplicates", "outliers", "encode">>

StepKeys ==
    <<"clean_column_names", "handle_missing", "convert_types", "remove_duplicates",
      "handle_outliers", "encode_categorical">>

\* Every dict that gives true or false to some of the step options.
StepOptions ==
    {OptionsNone, OptionsOther}
    \cup {OptionsDict(d) : d \in UNION {[K -> BOOLEAN] : K \in SUBSET Range(StepKeys)}}

StepInputs ==
    {CleanData_("list", Frame(CleanRows, <<Col("Total Sales", "number", 2, 3),
                 [Col("b", "object", CleanRows - 1, 1) EXCEPT !.numlike = TRUE]>>), 1),
     CleanData_("dict", Frame(CleanRows, <<[Col("a", "number", 0, CleanRows - 1)
                                               EXCEPT !.outliers = 2],
                 [Col("a", "object", 0, OneHotMaxUnique + 1) EXCEPT !.numlike = TRUE]>>), 0)}

\* A call of clean_data on a fresh cleaner with some of its steps switched.
CleanDataSteps ==
    /\ pc = "start"
    /\ CallCleanData(StepInputs, StepOptions, {"none", "types"})

SpecSteps == Init /\ [][CleanDataSteps]_vars

\* The option of step i counts as true: given true, or absent and the step
\* is not the encoding.
Switched(options, i) ==
    IF options.kind = "dict" /\ StepKeys[i] \in DOMAIN options.d
    THEN options.d[StepKeys[i]]
    ELSE StepNames[i] # "encode"

RECURSIVE StepsFrom(_, _)
StepsFrom(i, options) ==
    IF i > Len(StepNames) THEN <<>>
    ELSE (IF Switched(options, i) THEN <<StepNames[i]>> ELSE <<>>)
         \o StepsFrom(i + 1, options)

IsPrefix(s, t) == Len(s) <= Len(t) /\ s = SubSeq(t, 1, Len(s))

\* options is None or the empty dict.
NoOptions(options) ==
    options.kind = "none" \/ (options.kind = "dict" /\ DOMAIN options.d = {})

\* C14: clean_data runs the analysis first and then, in the fixed order, the
\* steps whose option counts as true (absent: true, but false for
\* encode_categorical), up to a step that raises; options = {} and
\* options = None run the same steps and give the same result and report.
C14_StepsInFixedOrder ==
    pc = "clean_data" =>
        LET expected == <<"analyze">> \o StepsFrom(1, call_in.options)
        IN  /\ IsPrefix(call_out.steps, expected)
            /\ call_out.out.value.success => call_out.steps = expected
            /\ NoOptions(call_in.options) =>
                 /\ \A options \in {OptionsNone, OptionsDict(<<>>)} :
                      LET r == clean_data(NewReport, call_in.data, options, call_in.fault)
                      IN  /\ r.steps = call_out.steps
                          /\ r.out = call_out.out
                          /\ r.report = cleaning_report
                 /\ call_out.out.value.success =>
                      call_out.steps = <<"analyze", "names", "missing", "types",
                                         "duplicates", "outliers">>

\* A successful call that skipped the type conversion and the outliers and
\* ran the encoding, and one without options.
C14_Witness ==
    /\ pc = "clean_data"
    /\ call_out.out.value.success
    /\ call_out.steps = <<"analyze", "names", "missing", "duplicates", "encode">>

C14_WitnessNoOptions ==
    /\ pc = "clean_data"
    /\ call_out.out.value.success
    /\ call_in.options = OptionsDict(<<>>)

\* ------------------------------------------------- train_model: the split

\* The least whole number that is at least n * num / den.
CeilOf(n, num, den) == CHOOSE k \in 0..n : k * den >= n * num /\ (k - 1) * den < n * num

\* A successful result of the ml trainer that reports a split.
SplitReported ==
    /\ pc = "train_model"
    /\ call_in.trainer.kind = "ml"
    /\ call_out.out.kind = "return"
    /\ call_out.out.value.success
    /\ "training_samples" \in DOMAIN call_out.out.value

\* The sizes C15 gives for n rows.
SizedByRows(r, n) ==
    /\ n >= 2
    /\ n > 2 =>
         /\ r.training_samples + r.test_samples = n
         /\ r.training_samples >= 1
         /\ r.test_samples >= 1
         /\ r.test_samples = (IF n > 10 THEN CeilOf(n, 2, 10)
                              ELSE IF n >= 6 THEN CeilOf(n, 1, 10) ELSE 1)
    /\ n = 2 => (r.training_samples = 2 /\ r.test_samples = 2)

\* C15 as stated: every successful result of train_model of the ml trainer
\* is split by the number of rows used, 20% of them tested above 10 rows,
\* 10% from 6 to 10, one row from 3 to 5, both sets whole for 2 rows.
C15_EverySplitByRows ==
    SplitReported => SizedByRows(call_out.out.value, call_out.out.value.samples_used)

\* C15: that holds for every algorithm but 'auto_ml', whose results are split
\* with 20% tested for any number of rows above 2; the folds of the
\* cross-validation are min(5, n) above 2 rows and 2 for 2 rows, at least 2
\* and at most n.
C15_SplitByRows ==
    SplitReported =>
        LET r == call_out.out.value
            n == r.samples_used
        IN  IF call_in.algorithm # "auto_ml"
            THEN /\ SizedByRows(r, n)
                 /\ CvFolds(call_in.trainer, n) = (IF n > 2 THEN Min(5, n) ELSE 2)
                 /\ CvFolds(call_in.trainer, n) >= 2
                 /\ CvFolds(call_in.trainer, n) <= n
            ELSE /\ n >= 2
                 /\ n > 2 => /\ r.training_samples + r.test_samples = n
                             /\ r.training_samples >= 1
                             /\ r.test_samples = CeilOf(n, 2, 10)
                 /\ n = 2 => (r.training_samples = 2 /\ r.test_samples = 2)

\* Seven rows were used by a regression: six trained, one tested.
C15_Witness ==
    /\ SplitReported
    /\ call_in.algorithm = "linear_regression"
    /\ call_out.out.value.samples_used = 7
    /\ call_out.out.value.training_samples = 6
    /\ call_out.out.value.test_samples = 1

\* ------------------------------------------------- the fewest rows trained

\* Records with features x (and x2, if `more`) in every record and a target
\* y given in nvalid records, nparse of them as a number, and missing in
\* `missing` more.
FewRecords(dtype, nvalid, nparse, distinct, missing, more) ==
    LET rows == nvalid + missing
        x(name) == TCol(name, "number", rows, rows, Min(2, rows))
        y == TCol("y", dtype, nvalid, IF dtype = "number" THEN nvalid ELSE nparse,
                  IF distinct THEN nvalid ELSE Min(1, nvalid))
    IN  TrainData("list", rows, rows, 0,
                  IF more THEN <<x("x"), x("x2"), y>> ELSE <<x("x"), y>>)

\* preprocess_data on records whose target is given in few records, or in
\* few as a number.
PreprocessFewRows ==
    /\ pc = "start"
    /\ \E nvalid \in 0..MaxTrainRows, part \in {0, 1, 3}, dtype \in {"number", "object"},
          distinct \in BOOLEAN, missing \in {0, 1, 3}, more \in BOOLEAN :
         /\ nvalid + missing > 0
         /\ \E data \in {FewRecords(dtype, nvalid, Min(part, nvalid), distinct,
                                    missing, more)} :
            \E pre \in {preprocess_data(trainer, data, "y", "none")} :
               /\ call_in' = [data |-> data, target_column |-> "y", fault |-> "none",
                              trainer |-> trainer]
               /\ call_out' = pre
               /\ trainer' = AfterCall(trainer, pre, {})
    /\ pc' = "preprocess_data"
    /\ calls' = calls + 1
    /\ UNCHANGED cleaning_report

\* train_model on the same records.
TrainFewRows ==
    /\ pc = "start"
    /\ \E nvalid \in 0..MaxTrainRows, part \in {0, 1, 3}, dtype \in {"number", "object"},
          distinct \in BOOLEAN, missing \in {0, 1, 3}, more \in BOOLEAN :
         /\ nvalid + missing > 0
         /\ CallTrainModel(FewRecords(dtype, nvalid, Min(part, nvalid), distinct,
                                      missing, more),
                           "random_forest", "y", "none", NoCvs)

SpecFewRows == Init /\ [][PreprocessFewRows \/ TrainFewRows]_vars

\* The fewest rows the trainer accepts.
Minimum(self) == IF self.kind = "ml" THEN 2 ELSE 5

\* C16: with fewer rows holding a target value than the trainer's minimum (2
\* for ml, 5 for production) train_model returns success False with an
\* insufficient-data error and fits nothing; and what preprocess_data returns
\* has at least that many rows.
C16_RefusesTooFewRows ==
    /\ (pc = "train_model"
          /\ TColumn(call_in.data.cols, "y").nvalid < Minimum(call_in.trainer)) =>
          /\ call_out.out.kind = "return"
          /\ ~call_out.out.value.success
          /\ call_out.out.value.error \in
                {"Data preprocessing failed: Insufficient data",
                 "Data preprocessing failed: No valid data found after cleaning"}
          /\ call_out.fitted = ""
    /\ (pc = "preprocess_data" /\ ~call_out.raised) =>
          call_out.n >= Minimum(call_in.trainer)

\* What holds in the ml trainer: what preprocess_data returns has at least
\* 2 rows, and a target given in fewer than 2 records is refused unless it
\* is given in none, in which case another column is taken as the target.
C16_MlMinimum ==
    /\ (pc = "train_model" /\ call_in.trainer.kind = "ml"
          /\ TColumn(call_in.data.cols, "y").nvalid = 1) =>
          /\ ~call_out.out.value.success
          /\ call_out.out.value.error = "Data preprocessing failed: Insufficient data"
          /\ call_out.fitted = ""
    /\ (pc = "preprocess_data" /\ call_in.trainer.kind = "ml" /\ ~call_out.raised) =>
          call_out.n >= 2

\* What holds in the production trainer: a target given in fewer than 5
\* records is refused.
C16_ProductionMinimum ==
    (pc = "train_model" /\ call_in.trainer.kind = "production"
       /\ TColumn(call_in.data.cols, "y").nvalid < 5) =>
       /\ ~call_out.out.value.success
       /\ call_out.out.value.error = "Data preprocessing failed: Insufficient data"
       /\ call_out.fitted = ""

\* The production trainer returned fewer than 5 rows.
C16_ProductionReturnsFewer ==
    /\ pc = "preprocess_data"
    /\ call_in.trainer.kind = "production"
    /\ ~call_out.raised
    /\ call_out.n < 5

\* The ml trainer trained although no record gives the target.
C16_MlTrainsWithoutTarget ==
    /\ pc = "train_model"
    /\ call_in.trainer.kind = "ml"
    /\ TColumn(call_in.data.cols, "y").nvalid = 0
    /\ call_out.out.value.success

\* ------------------------------------------------ the target column used

\* What preprocess_data gave the call of train_model (ghost).
Preprocessed ==
    preprocess_data(call_in.trainer, call_in.data, call_in.target_column, call_in.fault)

\* The columns of the table of the call that hold a value.
ColumnsGiven == SelectSeq(call_in.data.cols, HasValue)

\* A call of train_model on a table, for a supervised algorithm.
SupervisedCall ==
    /\ pc = "train_model"
    /\ call_in.data.kind \in {"dict", "list"}
    /\ call_in.algorithm # "k_means"

\* The ml trainer takes the first numeric column, or the last column when
\* none is numeric, for a target that is no column, and keeps it out of the
\* features; the production trainer fails with 'Target column not found'.
C17_FallbackTarget ==
    /\ (SupervisedCall /\ call_in.trainer.kind = "ml"
          /\ call_in.target_column \notin TColNames(ColumnsGiven)
          /\ ~Preprocessed.raised) =>
          /\ Preprocessed.target =
               (IF \E i \in 1..Len(ColumnsGiven) : ColumnsGiven[i].dtype = "number"
                THEN ColumnsGiven[CHOOSE i \in 1..Len(ColumnsGiven) :
                        /\ ColumnsGiven[i].dtype = "number"
                        /\ \A j \in 1..(i - 1) : ColumnsGiven[j].dtype # "number"].name
                ELSE ColumnsGiven[Len(ColumnsGiven)].name)
          /\ Preprocessed.features = Len(ColumnsGiven) - 1
    /\ (pc = "train_model" /\ call_in.data.kind \in {"dict", "list"}
          /\ call_in.trainer.kind = "production"
          /\ call_in.target_column \notin TColNames(call_in.data.cols)) =>
          /\ call_out.out.kind = "return"
          /\ ~call_out.out.value.success
          /\ call_out.out.value.error =
               "Data preprocessing failed: Target column not found in data"

\* C17: besides, every successful result of the ml trainer names in
\* target_column the column that was used as the target.
C17_ResultNamesTargetUsed ==
    /\ C17_FallbackTarget
    /\ (SupervisedCall /\ call_in.trainer.kind = "ml"
          /\ call_out.out.kind = "return" /\ call_out.out.value.success) =>
          call_out.out.value.target_column = Preprocessed.target

\* The ml trainer trained on the first numeric column for a target that is
\* no column.
C17_TrainedOnAnotherColumn ==
    /\ SupervisedCall
    /\ call_in.trainer.kind = "ml"
    /\ call_in.target_column = "zzz"
    /\ call_out.out.value.success
    /\ Preprocessed.target = "x"

\* ------------------------------------------------ handle_outliers: zscore

\* Columns of OutlierRows rows: the values 0, 1, 2, ... with one or two of
\* them replaced by a value further away.
FarValues == {-40, -12, 20, 30, 100}

ZscoreColumns ==
    LET base == [r \in 1..OutlierRows |-> r - 1]
        one  == {[base EXCEPT ![p] = v] : p \in {1, OutlierRows}, v \in FarValues}
        two  == {[b EXCEPT ![2] = v] : b \in one, v \in FarValues}
    IN  {base, [r \in 1..OutlierRows |-> (r - 1) % SkipMaxUnique]} \cup one \cup two

\* A call of handle_outliers with method 'zscore' on a fresh cleaner: by the
\* caller, or by clean_data with options outlier_method = 'zscore' (line 315),
\* which passes the method alone.
HandleOutliersZscore ==
    /\ pc = "start"
    /\ \E vals \in ZscoreColumns, d \in {"number", "object"},
          route \in {"handle_outliers", "clean_data"} :
         \E df \in {Frame(OutlierRows, <<ValCol("a", d, vals),
                                         ValCol("b", "object", BaseVals(3))>>)},
            method \in {IF route = "clean_data"
                        THEN Get(OptionsDict([outlier_method |-> "zscore"]),
                                 "outlier_method", "iqr")
                        ELSE "zscore"} :
            /\ call_in' = [df |-> df, method |-> method, route |-> route]
            /\ call_out' = handle_outliers(df, method, cleaning_report)
    /\ pc' = "handle_outliers"
    /\ calls' = calls + 1
    /\ UNCHANGED <<cleaning_report, trainer>>

SpecZscore == Init /\ [][HandleOutliersZscore]_vars

\* v is closer to the mean of vals than 3 standard deviations.
CloserThanThreeStd(vals, v) ==
    (Len(vals) - 1) * Deviation(vals, v) * Deviation(vals, v)
        < 9 * Len(vals) * SquaresTimesN(vals)

\* C18: with method 'zscore' every value of a processed column ends within 3
\* standard deviations of the mean of the column before the call, and a value
\* closer to the mean than that is not changed.
C18_CappedAtThreeStd ==
    (pc = "handle_outliers" /\ call_in.method = "zscore") =>
        \A i \in 1..Len(call_in.df.cols) :
            LET c == call_in.df.cols[i]
                o == call_out.df.cols[i]
            IN  Processed(c) =>
                  \A r \in 1..Len(c.vals) :
                     /\ WithinStd(c.vals, o.vals[r], 3, 1)
                     /\ CloserThanThreeStd(c.vals, c.vals[r]) => o.vals[r] = c.vals[r]

\* What holds: when some value is more than 1.5 population standard
\* deviations from the mean, every value ends within 1.5 sample standard
\* deviations of it, the values already there staying as they are; otherwise
\* nothing changes.  A column that is not processed is unchanged.
C18_CappedAtThreshold ==
    (pc = "handle_outliers" /\ call_in.method = "zscore") =>
        \A i \in 1..Len(call_in.df.cols) :
            LET c == call_in.df.cols[i]
                o == call_out.df.cols[i]
            IN  /\ ~Processed(c) => o = c
                /\ Processed(c) =>
                     IF \E r \in 1..Len(c.vals) : ZscoreAbove(c.vals, c.vals[r])
                     THEN \A r \in 1..Len(c.vals) :
                            /\ WithinStd(c.vals, o.vals[r], 3, 2)
                            /\ WithinStd(c.vals, c.vals[r], 3, 2) => o.vals[r] = c.vals[r]
                     ELSE o = c

\* A value between 1.5 and 3 standard deviations from the mean was changed.
C18_ChangedBelowThreeStd ==
    /\ pc = "handle_outliers"
    /\ call_in.method = "zscore"
    /\ call_in.route = "clean_data"
    /\ \E r \in 1..OutlierRows :
         /\ CloserThanThreeStd(call_in.df.cols[1].vals, call_in.df.cols[1].vals[r])
         /\ call_out.df.cols[1].vals[r] # call_in.df.cols[1].vals[r]

====
